---- MODULE Spec2Model ----
(***************************************************************************)
(* State-machine model of the beads in-process issue store               *)
(* (crates/beads-lib): the store's CRUD, graph, label and comment         *)
(* operations, the id generator, the partial-id resolver and the JSONL   *)
(* journal with its write-to-temp + rename save.                         *)
(*                                                                        *)
(* Strings are TLA+ strings; a character is a string of length one.      *)
(* Option<T> is a record: None, or Some(v) with the value in field v.    *)
(***************************************************************************)
EXTENDS Integers, Sequences, FiniteSets, TLC

\* ------------------------------------------------------------------------
\* Bounds of the model
\* ------------------------------------------------------------------------
\* longest audit log explored
MaxEvents == 2

\* longest audit log explored by the status life-cycle specification
MaxLifeEvents == 7

\* longest audit log explored by the id-resolution specification
MaxResolveEvents == 3

\* longest audit log explored by the journal round-trip specification
MaxJournalEvents == 2

\* longest audit log explored by the dependency-graph specification
MaxGraphEvents == 6

\* the longest audit log explored with caller-chosen field values
MaxFieldEvents == 3

\* the most events appended to the audit log of the crowded store
MaxCrowdEvents == 3

\* events in the log of the work-query specification
MaxWorkEvents == 3

\* events in the log of the list-and-ready-query specification
MaxQueryEvents == 4

\* ------------------------------------------------------------------------
\* Option<T>
\* ------------------------------------------------------------------------
None == [some |-> FALSE]

Some(x) == [some |-> TRUE, v |-> x]

is_some(o) == o.some

is_none(o) == ~o.some

\* Option<&str>::unwrap_or("")
unwrap_or_empty(o) == IF o.some THEN o.v ELSE ""

\* ------------------------------------------------------------------------
\* str helpers (std::str), computed character by character
\* ------------------------------------------------------------------------
CharAt(s, i) == SubSeq(s, i, i)

UpperChars == "ABCDEFGHIJKLMNOPQRSTUVWXYZ"

LowerChars == "abcdefghijklmnopqrstuvwxyz"

IsWhitespace(c) == c \in {" ", "\t", "\n", "\r"}

LowerChar(c) ==
    IF \E i \in 1..Len(UpperChars) : CharAt(UpperChars, i) = c
    THEN CharAt(LowerChars, CHOOSE i \in 1..Len(UpperChars) : CharAt(UpperChars, i) = c)
    ELSE c

RECURSIVE to_lowercase(_)
to_lowercase(s) ==
    IF Len(s) = 0 THEN ""
    ELSE LowerChar(CharAt(s, 1)) \o to_lowercase(SubSeq(s, 2, Len(s)))

RECURSIVE trim_start(_)
trim_start(s) ==
    IF Len(s) > 0 /\ IsWhitespace(CharAt(s, 1))
    THEN trim_start(SubSeq(s, 2, Len(s)))
    ELSE s

RECURSIVE trim_end(_)
trim_end(s) ==
    IF Len(s) > 0 /\ IsWhitespace(CharAt(s, Len(s)))
    THEN trim_end(SubSeq(s, 1, Len(s) - 1))
    ELSE s

trim(s) == trim_end(trim_start(s))

\* str::contains(pat)
contains(s, pat) ==
    \E i \in 1..(Len(s) + 1) :
        i + Len(pat) - 1 <= Len(s) /\ SubSeq(s, i, i + Len(pat) - 1) = pat

\* str::rfind(c): 1-based position of the last occurrence, 0 when absent
rfind(s, c) ==
    IF \E i \in 1..Len(s) : CharAt(s, i) = c
    THEN CHOOSE i \in 1..Len(s) :
            CharAt(s, i) = c /\ \A j \in (i + 1)..Len(s) : CharAt(s, j) # c
    ELSE 0

\* str::find(c): 1-based position of the first occurrence, 0 when absent
find(s, c) ==
    IF \E i \in 1..Len(s) : CharAt(s, i) = c
    THEN CHOOSE i \in 1..Len(s) :
            CharAt(s, i) = c /\ \A j \in 1..(i - 1) : CharAt(s, j) # c
    ELSE 0

\* str::replace(from, to) for a one-character pattern
RECURSIVE replace_char(_, _, _)
replace_char(s, from, to) ==
    IF Len(s) = 0 THEN ""
    ELSE (IF CharAt(s, 1) = from THEN to ELSE CharAt(s, 1))
            \o replace_char(SubSeq(s, 2, Len(s)), from, to)

\* ------------------------------------------------------------------------
\* Model (model.rs): Status, Priority, IssueType, DependencyType, EventType
\* ------------------------------------------------------------------------
StatusOpen == [tag |-> "Open", v |-> ""]

StatusInProgress == [tag |-> "InProgress", v |-> ""]

StatusBlocked == [tag |-> "Blocked", v |-> ""]

StatusDeferred == [tag |-> "Deferred", v |-> ""]

StatusClosed == [tag |-> "Closed", v |-> ""]

StatusTombstone == [tag |-> "Tombstone", v |-> ""]

StatusPinned == [tag |-> "Pinned", v |-> ""]

StatusCustom(s) == [tag |-> "Custom", v |-> s]

Status_as_str(st) ==
    CASE st.tag = "Open" -> "open"
      [] st.tag = "InProgress" -> "in_progress"
      [] st.tag = "Blocked" -> "blocked"
      [] st.tag = "Deferred" -> "deferred"
      [] st.tag = "Closed" -> "closed"
      [] st.tag = "Tombstone" -> "tombstone"
      [] st.tag = "Pinned" -> "pinned"
      [] OTHER -> st.v

is_terminal(st) == st.tag \in {"Closed", "Tombstone"}

\* Priority(pub i32); Display writes P{n}
Priority_to_string(p) == "P" \o ToString(p)

TypeTask == [tag |-> "Task", v |-> ""]

TypeCustom(s) == [tag |-> "Custom", v |-> s]

IssueType_as_str(t) ==
    CASE t.tag = "Task" -> "task"
      [] t.tag = "Bug" -> "bug"
      [] t.tag = "Feature" -> "feature"
      [] t.tag = "Epic" -> "epic"
      [] t.tag = "Chore" -> "chore"
      [] t.tag = "Docs" -> "docs"
      [] t.tag = "Question" -> "question"
      [] OTHER -> t.v

DepBlocks == [tag |-> "Blocks", v |-> ""]

DepRelated == [tag |-> "Related", v |-> ""]

DepParentChild == [tag |-> "ParentChild", v |-> ""]

DepConditionalBlocks == [tag |-> "ConditionalBlocks", v |-> ""]

DepWaitsFor == [tag |-> "WaitsFor", v |-> ""]

DepDiscoveredFrom == [tag |-> "DiscoveredFrom", v |-> ""]

DepCustom(s) == [tag |-> "Custom", v |-> s]

\* DependencyType::is_blocking
is_blocking(t) == t.tag \in {"Blocks", "ParentChild", "ConditionalBlocks", "WaitsFor"}

\* Dependency { issue_id, depends_on_id, dep_type, created_at, created_by,
\*              metadata, thread_id }
Dependency(issue_id, depends_on_id, dep_type, created_at, created_by, metadata) ==
    [issue_id |-> issue_id, depends_on_id |-> depends_on_id, dep_type |-> dep_type,
     created_at |-> created_at, created_by |-> created_by, metadata |-> metadata,
     thread_id |-> None]

\* Comment { id, issue_id, author, body, created_at }
Comment(id, issue_id, author, body, created_at) ==
    [id |-> id, issue_id |-> issue_id, author |-> author, body |-> body,
     created_at |-> created_at]

\* Event { id, issue_id, event_type, actor, old_value, new_value, comment,
\*         created_at }
Event(id, issue_id, event_type, actor, old_value, new_value, created_at) ==
    [id |-> id, issue_id |-> issue_id, event_type |-> event_type, actor |-> actor,
     old_value |-> old_value, new_value |-> new_value, comment |-> None,
     created_at |-> created_at]

\* Issue::default(), with the clock reading taken at construction.  The
\* fields source_repo, original_type, compacted_at, compacted_at_commit,
\* original_size, sender and ephemeral are plain optional payload that no
\* store operation reads or writes; they are left out.
DefaultIssue(now) ==
    [id |-> "", content_hash |-> None, title |-> "", description |-> None,
     design |-> None, acceptance_criteria |-> None, notes |-> None,
     status |-> StatusOpen, priority |-> 0, issue_type |-> TypeTask,
     assignee |-> None, owner |-> None, estimated_minutes |-> None,
     created_at |-> now, created_by |-> None, updated_at |-> now,
     closed_at |-> None, close_reason |-> None, closed_by_session |-> None,
     due_at |-> None, defer_until |-> None, external_ref |-> None,
     source_system |-> None, deleted_at |-> None, deleted_by |-> None,
     delete_reason |-> None, compaction_level |-> None, pinned |-> FALSE,
     is_template |-> FALSE, labels |-> <<>>, dependencies |-> <<>>,
     comments |-> <<>>]

\* ------------------------------------------------------------------------
\* Hasher (util.rs)
\* ------------------------------------------------------------------------
\* The byte 0x00, which a TLA+ string literal cannot hold, is written "#";
\* no other text of the model uses that character for anything else.
NUL == "#"

\* a hash_field that writes embedded null bytes as they are
hash_field_unescaped(value) == value \o NUL

\* the closure hash_field: the bytes one field adds to the hasher
hash_field(value) ==
    (IF contains(value, NUL) THEN replace_char(value, NUL, " ") ELSE value) \o NUL

\* SHA-256 itself is idealised as collision free: the digest stands for
\* the byte stream it was computed from.
Sha256Hex(bytes) == <<"sha256", bytes>>

content_hash_from_parts(title, description, design, acceptance_criteria, notes, status, priority, issue_type, assignee, owner, created_by, external_ref, source_system, pinned, is_template) ==
    Sha256Hex(
        hash_field(title)
        \o hash_field(unwrap_or_empty(description))
        \o hash_field(unwrap_or_empty(design))
        \o hash_field(unwrap_or_empty(acceptance_criteria))
        \o hash_field(unwrap_or_empty(notes))
        \o hash_field(Status_as_str(status))
        \o hash_field("P" \o ToString(priority))
        \o hash_field(IssueType_as_str(issue_type))
        \o hash_field(unwrap_or_empty(assignee))
        \o hash_field(unwrap_or_empty(owner))
        \o hash_field(unwrap_or_empty(created_by))
        \o hash_field(unwrap_or_empty(external_ref))
        \o hash_field(unwrap_or_empty(source_system))
        \o hash_field(IF pinned THEN "true" ELSE "false")
        \o hash_field(IF is_template THEN "true" ELSE "false"))

content_hash(issue) ==
    content_hash_from_parts(issue.title, issue.description, issue.design,
        issue.acceptance_criteria, issue.notes, issue.status, issue.priority,
        issue.issue_type, issue.assignee, issue.owner, issue.created_by,
        issue.external_ref, issue.source_system, issue.pinned, issue.is_template)

\* a hash computed once and kept
compute_content_hash_kept(issue) ==
    IF issue.content_hash.some THEN issue.content_hash.v ELSE content_hash(issue)

\* Issue::compute_content_hash
compute_content_hash(issue) == content_hash(issue)

\* ------------------------------------------------------------------------
\* IdGen (crates/beads-lib/src/util.rs and src/util/id.rs)
\* ------------------------------------------------------------------------
\* for nonce in 0..10
NoncesPerLength == 10

\* the longest hash length probed before the fallback
MaxHashLength == 8

\* hash length of the fallback id
FallbackHashLength == 12

\* the fallback loop of util.rs gives up once nonce > 1000
FallbackMaxNonce == 1000

\* 1 - exp(-n*n / (2 * 36^len)) < 0.25, evaluated in f64, holds exactly for
\* n <= BirthdayLimit[len - 2]  (len = 3..8)
BirthdayLimit == <<163, 983, 5898, 35389, 212339, 1274035>>

RECURSIVE optimal_from(_, _)
optimal_from(issue_count, len) ==
    IF len > MaxHashLength THEN MaxHashLength
    ELSE IF issue_count <= BirthdayLimit[len - 2] THEN len
    ELSE optimal_from(issue_count, len + 1)

optimal_hash_length(issue_count) == optimal_from(issue_count, 3)

\* IdGenerator::optimal_length with the default IdConfig (3..=8, 0.25)
optimal_length(issue_count) == optimal_from(issue_count, 3)

generate_id_seed(title, description, creator, created_at, nonce) ==
    title \o "|" \o unwrap_or_empty(description) \o "|" \o unwrap_or_empty(creator)
        \o "|" \o ToString(created_at) \o "|" \o ToString(nonce)

Base36Alphabet == "0123456789abcdefghijklmnopqrstuvwxyz"

RECURSIVE base36_digits(_)
base36_digits(num) ==
    IF num = 0 THEN ""
    ELSE base36_digits(num \div 36) \o CharAt(Base36Alphabet, (num % 36) + 1)

base36_encode(num) == IF num = 0 THEN "0" ELSE base36_digits(num)

\* The first eight bytes of the SHA-256 digest, packed big-endian.  The
\* digest is stood in for by a deterministic mixing of the seed's
\* characters into 0 .. 36^4 - 1: equal seeds give equal numbers,
\* different seeds give numbers that differ in their leading digits as a
\* rule and may collide, which is all the generator relies on.
SeedChars == Base36Alphabet \o "|-._ " \o UpperChars

\* the position of each character of SeedChars in it
CharCodes ==
    [c \in {CharAt(SeedChars, i) : i \in 1..Len(SeedChars)} |->
        CHOOSE i \in 1..Len(SeedChars) : CharAt(SeedChars, i) = c]

CharCode(c) == IF c \in DOMAIN CharCodes THEN CharCodes[c] ELSE 0

RECURSIVE MixChars(_, _)
MixChars(h, s) ==
    IF Len(s) = 0 THEN h
    ELSE MixChars((h * 31 + CharCode(CharAt(s, 1))) % 1679616, SubSeq(s, 2, Len(s)))

Sha256First8(input) ==
    (((MixChars(7, input) * 1277) % 1679616) * 1277) % 1679616

RECURSIVE zeros(_)
zeros(n) == IF n <= 0 THEN "" ELSE "0" \o zeros(n - 1)

compute_id_hash(input, length) ==
    LET encoded == base36_encode(Sha256First8(input))
        padded == IF Len(encoded) < length
                  THEN zeros(length - Len(encoded)) \o encoded
                  ELSE encoded
    IN  SubSeq(padded, 1, length)

\* An existence predicate Fn(&str) -> bool: true for every string, or true
\* exactly for the strings of a set.
PredAll == [all |-> TRUE, ids |-> {}]

PredSet(S) == [all |-> FALSE, ids |-> S]

Exists(pred, id) == pred.all \/ id \in pred.ids

GenCandidate(prefix, title, description, creator, created_at, nonce, length) ==
    prefix \o "-"
        \o compute_id_hash(generate_id_seed(title, description, creator, created_at, nonce),
                           length)

\* util.rs: the fallback loop at length 12.  The loop returns the
\* candidate of the first nonce in 0..=1000 that the predicate rejects;
\* when there is none it leaves with nonce = 1001 and returns the last
\* candidate with the nonce appended, without asking the predicate.
generate_id_fallback(prefix, title, description, creator, created_at, pred) ==
    LET cand(n) == GenCandidate(prefix, title, description, creator, created_at, n,
                                FallbackHashLength)
        free(n) == ~Exists(pred, cand(n))
    IN  IF \E n \in 0..FallbackMaxNonce : free(n)
        THEN cand(CHOOSE n \in 0..FallbackMaxNonce :
                    free(n) /\ \A m \in 0..(n - 1) : ~free(m))
        ELSE cand(FallbackMaxNonce) \o ToString(FallbackMaxNonce + 1)

\* util.rs: the probing loop, entered at (length, nonce): the first
\* candidate the predicate rejects, or "" (no id is empty) when the ten
\* nonces of every length up to 8 are taken and the code goes on to the
\* fallback loop
RECURSIVE generate_id_loop(_, _, _, _, _, _, _, _)
generate_id_loop(prefix, title, description, creator, created_at, pred, length, nonce) ==
    IF nonce < NoncesPerLength
    THEN LET id == GenCandidate(prefix, title, description, creator, created_at,
                                nonce, length)
         IN  IF ~Exists(pred, id) THEN id
             ELSE generate_id_loop(prefix, title, description, creator, created_at,
                                   pred, length, nonce + 1)
    ELSE IF length < MaxHashLength
    THEN generate_id_loop(prefix, title, description, creator, created_at, pred,
                          length + 1, 0)
    ELSE ""

\* generate_id whose first probe is nonce 1
generate_id_from_nonce_1(prefix, title, description, creator, created_at, issue_count, pred) ==
    LET probed == generate_id_loop(prefix, title, description, creator, created_at, pred,
                                   optimal_hash_length(issue_count), 1)
    IN  IF probed # "" THEN probed
        ELSE generate_id_fallback(prefix, title, description, creator, created_at, pred)

generate_id(prefix, title, description, creator, created_at, issue_count, pred) ==
    LET probed == generate_id_loop(prefix, title, description, creator, created_at, pred,
                                   optimal_hash_length(issue_count), 0)
    IN  IF probed # "" THEN probed
        ELSE generate_id_fallback(prefix, title, description, creator, created_at, pred)

\* src/util/id.rs: IdGenerator::generate, entered at (length, nonce)
RECURSIVE IdGenerator_loop(_, _, _, _, _, _, _, _)
IdGenerator_loop(prefix, title, description, creator, created_at, pred, length, nonce) ==
    IF nonce < NoncesPerLength
    THEN LET id == GenCandidate(prefix, title, description, creator, created_at,
                                nonce, length)
         IN  IF ~Exists(pred, id) THEN id
             ELSE IdGenerator_loop(prefix, title, description, creator, created_at,
                                   pred, length, nonce + 1)
    ELSE IF length < MaxHashLength
    THEN IdGenerator_loop(prefix, title, description, creator, created_at, pred,
                          length + 1, 0)
    ELSE GenCandidate(prefix, title, description, creator, created_at, 0,
                      FallbackHashLength)

IdGenerator_generate(prefix, title, description, creator, created_at, issue_count, pred) ==
    IdGenerator_loop(prefix, title, description, creator, created_at, pred,
                     optimal_length(issue_count), 0)

\* ------------------------------------------------------------------------
\* Store (store.rs): state
\* ------------------------------------------------------------------------
VARIABLES
    issues,            \* HashMap<String, Issue>: a function on the stored ids
    labels,            \* HashMap<String, Vec<String>>
    dependencies,      \* Vec<Dependency>
    comments,          \* HashMap<String, Vec<Comment>>
    events,            \* Vec<Event>
    dirty_ids,         \* HashSet<String>
    next_event_id,     \* i64
    next_comment_id,   \* i64
    prefix,            \* String
    jsonl_path,        \* Option<PathBuf>
    ret,               \* the last call: operation, issue id, result, argument, value
    fs,                \* the disk: a function from the paths that exist to their lines
    save_st,           \* the jsonl::save call in progress, if any
    hist,              \* what the saves wrote and the loads returned, in order
    gen                \* the id-generator call under test: inputs and result

storeVars == <<issues, labels, dependencies, comments, events, dirty_ids,
               next_event_id, next_comment_id, prefix, jsonl_path>>

\* HashMap helpers
EmptyMap == [k \in {} |-> k]

MapInsert(m, k, val) == [x \in (DOMAIN m) \cup {k} |-> IF x = k THEN val ELSE m[x]]

MapRemove(m, k) == [x \in (DOMAIN m) \ {k} |-> m[x]]

contains_key(m, k) == k \in DOMAIN m

\* Result<T> of a call as kept in ret
Ok(op, id, arg, val) == [op |-> op, id |-> id, err |-> "ok", arg |-> arg, val |-> val]

Err(op, id, arg, e) == [op |-> op, id |-> id, err |-> e, arg |-> arg, val |-> None]

\* InMemoryStore::new
StoreNew ==
    /\ issues = EmptyMap
    /\ labels = EmptyMap
    /\ dependencies = <<>>
    /\ comments = EmptyMap
    /\ events = <<>>
    /\ dirty_ids = {}
    /\ next_event_id = 1
    /\ next_comment_id = 1
    /\ prefix = "bd"
    /\ jsonl_path = None

\* record_event without `self.next_event_id += 1`
record_event_same_id(log, issue_id, event_type, actor, old_value, new_value, now) ==
    [events |-> Append(log.events,
                       Event(log.next_event_id, issue_id, event_type, actor,
                             old_value, new_value, now)),
     next_event_id |-> log.next_event_id]

\* record_event, as a function of the log and the id counter; log is
\* [events, next_event_id]
record_event(log, issue_id, event_type, actor, old_value, new_value, now) ==
    [events |-> Append(log.events,
                       Event(log.next_event_id, issue_id, event_type, actor,
                             old_value, new_value, now)),
     next_event_id |-> log.next_event_id + 1]

\* the loop `for (event_type, old_value, new_value) in pending_events`
RECURSIVE record_pending(_, _, _, _, _)
record_pending(log, issue_id, actor, pending, now) ==
    IF pending = <<>> THEN log
    ELSE record_pending(
            record_event(log, issue_id, pending[1][1], actor, pending[1][2],
                         pending[1][3], now),
            issue_id, actor, Tail(pending), now)

CurrentLog == [events |-> events, next_event_id |-> next_event_id]

\* ------------------------------------------------------------------------
\* Store: CRUD
\* ------------------------------------------------------------------------
create_issue(issue, actor, now) ==
    IF trim(issue.title) = ""
    THEN /\ ret' = Err("create_issue", issue.id, issue, "Validation")
         /\ UNCHANGED storeVars
    ELSE IF issue.id # "" /\ contains_key(issues, issue.id)
    THEN /\ ret' = Err("create_issue", issue.id, issue, "IdCollision")
         /\ UNCHANGED storeVars
    ELSE
        LET exists == PredSet(DOMAIN issues)
            id == IF issue.id = ""
                  THEN generate_id(prefix, issue.title, issue.description,
                                   IF is_some(issue.created_by) THEN issue.created_by
                                   ELSE Some(actor),
                                   now, Cardinality(DOMAIN issues), exists)
                  ELSE issue.id
            stamped == [issue EXCEPT !.id = id, !.created_at = now, !.updated_at = now,
                            !.created_by = IF is_none(@) THEN Some(actor) ELSE @]
            hashed == [stamped EXCEPT !.content_hash = Some(compute_content_hash(stamped))]
            new_issue == [hashed EXCEPT !.labels = <<>>, !.dependencies = <<>>,
                                        !.comments = <<>>]
            log == record_event(CurrentLog, id, "Created", actor, None, None, now)
        IN  /\ issues' = MapInsert(issues, id, new_issue)
            /\ labels' = IF issue.labels # <<>>
                         THEN MapInsert(labels, id, issue.labels) ELSE labels
            /\ dependencies' = dependencies \o issue.dependencies
            /\ comments' = IF issue.comments # <<>>
                           THEN MapInsert(comments, id, issue.comments) ELSE comments
            /\ events' = log.events
            /\ next_event_id' = log.next_event_id
            /\ dirty_ids' = dirty_ids \cup {id}
            /\ ret' = Ok("create_issue", id, issue, new_issue)
            /\ UNCHANGED <<next_comment_id, prefix, jsonl_path>>

\* IssueUpdate::default(): every field None (leave alone)
EmptyUpdate ==
    [title |-> None, description |-> None, design |-> None,
     acceptance_criteria |-> None, notes |-> None, status |-> None,
     priority |-> None, issue_type |-> None, assignee |-> None, owner |-> None,
     estimated_minutes |-> None, due_at |-> None, defer_until |-> None,
     external_ref |-> None, closed_at |-> None, close_reason |-> None,
     closed_by_session |-> None, deleted_at |-> None, deleted_by |-> None,
     delete_reason |-> None]

\* `if let Some(ref x) = update.f { issue.f = x }`
Patched(old, field) == IF field.some THEN field.v ELSE old

\* update_issue with the title assigned before it is checked
update_head_title_first(issue, update, now) ==
    IF update.title.some /\ trim(update.title.v) = ""
    THEN [err |-> TRUE, issue |-> [issue EXCEPT !.title = update.title.v],
          pending |-> <<>>]
    ELSE [err |-> FALSE, issue |-> [issue EXCEPT !.title = Patched(@, update.title)],
          pending |-> <<>>]

\* update_issue whose status transition sets closed_at and never clears it
update_head_no_reopen(issue, update, now) ==
    IF update.title.some /\ trim(update.title.v) = ""
    THEN [err |-> TRUE, issue |-> issue, pending |-> <<>>]
    ELSE IF ~update.status.some
    THEN [err |-> FALSE, issue |-> [issue EXCEPT !.title = Patched(@, update.title)],
          pending |-> <<>>]
    ELSE
        LET status == update.status.v
            changed == <<"StatusChanged", Some(Status_as_str(issue.status)),
                         Some(Status_as_str(status))>>
            i2 == [issue EXCEPT !.title = Patched(@, update.title), !.status = status]
        IN  IF is_terminal(status) /\ is_none(i2.closed_at)
            THEN [err |-> FALSE, issue |-> [i2 EXCEPT !.closed_at = Some(now)],
                  pending |-> <<changed, <<"Closed", None, None>> >>]
            ELSE [err |-> FALSE, issue |-> i2, pending |-> <<changed>>]

\* update_issue, lines 224-258: the title check and the fields up to the
\* status transition, applied to the issue borrowed from the map.  The
\* result is the issue as the borrow leaves it, the events collected so
\* far and whether the call returns the validation error here.
update_head(issue, update, now) ==
    IF update.title.some /\ trim(update.title.v) = ""
    THEN [err |-> TRUE, issue |-> issue, pending |-> <<>>]
    ELSE
        LET i1 == [issue EXCEPT
                     !.title = Patched(@, update.title),
                     !.description = Patched(@, update.description),
                     !.design = Patched(@, update.design),
                     !.acceptance_criteria = Patched(@, update.acceptance_criteria),
                     !.notes = Patched(@, update.notes)]
        IN  IF ~update.status.some
            THEN [err |-> FALSE, issue |-> i1, pending |-> <<>>]
            ELSE
                LET status == update.status.v
                    changed == <<"StatusChanged", Some(Status_as_str(i1.status)),
                                 Some(Status_as_str(status))>>
                    i2 == [i1 EXCEPT !.status = status]
                IN  IF is_terminal(status) /\ is_none(i2.closed_at)
                    THEN [err |-> FALSE,
                          issue |-> [i2 EXCEPT !.closed_at = Some(now)],
                          pending |-> <<changed, <<"Closed", None, None>> >>]
                    ELSE IF ~is_terminal(status) /\ is_some(i2.closed_at)
                    THEN [err |-> FALSE,
                          issue |-> [i2 EXCEPT !.closed_at = None],
                          pending |-> <<changed, <<"Reopened", None, None>> >>]
                    ELSE [err |-> FALSE, issue |-> i2, pending |-> <<changed>>]

\* update_issue collecting AssigneeChanged before PriorityChanged
update_tail_assignee_first(head, update, now) ==
    LET i2 == head.issue
        i3 == [i2 EXCEPT
                 !.priority = Patched(@, update.priority),
                 !.issue_type = Patched(@, update.issue_type),
                 !.assignee = Patched(@, update.assignee),
                 !.owner = Patched(@, update.owner),
                 !.estimated_minutes = Patched(@, update.estimated_minutes),
                 !.due_at = Patched(@, update.due_at),
                 !.defer_until = Patched(@, update.defer_until),
                 !.external_ref = Patched(@, update.external_ref),
                 !.closed_at = Patched(@, update.closed_at),
                 !.close_reason = Patched(@, update.close_reason),
                 !.closed_by_session = Patched(@, update.closed_by_session),
                 !.deleted_at = Patched(@, update.deleted_at),
                 !.deleted_by = Patched(@, update.deleted_by),
                 !.delete_reason = Patched(@, update.delete_reason),
                 !.updated_at = now]
        pending == head.pending
            \o (IF update.assignee.some
                THEN << <<"AssigneeChanged", i2.assignee, update.assignee.v>> >>
                ELSE <<>>)
            \o (IF update.priority.some
                THEN << <<"PriorityChanged", Some(Priority_to_string(i2.priority)),
                          Some(Priority_to_string(update.priority.v))>> >>
                ELSE <<>>)
    IN  [issue |-> [i3 EXCEPT !.content_hash = Some(compute_content_hash(i3))],
         pending |-> pending]

\* update_issue, lines 259-311: the remaining fields, updated_at and the
\* content hash
update_tail(head, update, now) ==
    LET i2 == head.issue
        i3 == [i2 EXCEPT
                 !.priority = Patched(@, update.priority),
                 !.issue_type = Patched(@, update.issue_type),
                 !.assignee = Patched(@, update.assignee),
                 !.owner = Patched(@, update.owner),
                 !.estimated_minutes = Patched(@, update.estimated_minutes),
                 !.due_at = Patched(@, update.due_at),
                 !.defer_until = Patched(@, update.defer_until),
                 !.external_ref = Patched(@, update.external_ref),
                 !.closed_at = Patched(@, update.closed_at),
                 !.close_reason = Patched(@, update.close_reason),
                 !.closed_by_session = Patched(@, update.closed_by_session),
                 !.deleted_at = Patched(@, update.deleted_at),
                 !.deleted_by = Patched(@, update.deleted_by),
                 !.delete_reason = Patched(@, update.delete_reason),
                 !.updated_at = now]
        pending == head.pending
            \o (IF update.priority.some
                THEN << <<"PriorityChanged", Some(Priority_to_string(i2.priority)),
                          Some(Priority_to_string(update.priority.v))>> >>
                ELSE <<>>)
            \o (IF update.assignee.some
                THEN << <<"AssigneeChanged", i2.assignee, update.assignee.v>> >>
                ELSE <<>>)
    IN  [issue |-> [i3 EXCEPT !.content_hash = Some(compute_content_hash(i3))],
         pending |-> pending]

update_issue(id, update, actor, now) ==
    IF ~contains_key(issues, id)
    THEN /\ ret' = Err("update_issue", id, update, "IssueNotFound")
         /\ UNCHANGED storeVars
    ELSE
        LET head == update_head(issues[id], update, now)
        IN  IF head.err
            THEN /\ issues' = [issues EXCEPT ![id] = head.issue]
                 /\ ret' = Err("update_issue", id, update, "Validation")
                 /\ UNCHANGED <<labels, dependencies, comments, events, dirty_ids,
                                next_event_id, next_comment_id, prefix, jsonl_path>>
            ELSE
                LET done == update_tail(head, update, now)
                    log == record_event(
                              record_pending(CurrentLog, id, actor, done.pending, now),
                              id, "Updated", actor, None, None, now)
                IN  /\ issues' = [issues EXCEPT ![id] = done.issue]
                    /\ events' = log.events
                    /\ next_event_id' = log.next_event_id
                    /\ dirty_ids' = dirty_ids \cup {id}
                    /\ ret' = Ok("update_issue", id, update, done.issue)
                    /\ UNCHANGED <<labels, dependencies, comments, next_comment_id,
                                   prefix, jsonl_path>>

\* get_dependents counting the edges of a blocking type only
get_dependents_blocking(issue_id) ==
    SelectSeq(dependencies,
              LAMBDA d : d.depends_on_id = issue_id /\ is_blocking(d.dep_type))

\* InMemoryStore::get_dependents
get_dependents(issue_id) ==
    SelectSeq(dependencies, LAMBDA d : d.depends_on_id = issue_id)

\* delete_issue without `self.comments.remove(id)`
delete_issue_keeping_comments(id, actor, force, now) ==
    IF ~contains_key(issues, id)
    THEN /\ ret' = Err("delete_issue", id, force, "IssueNotFound")
         /\ UNCHANGED storeVars
    ELSE IF ~force /\ get_dependents(id) # <<>>
    THEN /\ ret' = [Err("delete_issue", id, force, "HasDependents")
                        EXCEPT !.val = Some(Len(get_dependents(id)))]
         /\ UNCHANGED storeVars
    ELSE
        LET log == record_event(CurrentLog, id, "Deleted", actor, None, None, now)
        IN  /\ issues' = MapRemove(issues, id)
            /\ labels' = MapRemove(labels, id)
            /\ dependencies' = SelectSeq(dependencies,
                                  LAMBDA d : d.issue_id # id /\ d.depends_on_id # id)
            /\ events' = log.events
            /\ next_event_id' = log.next_event_id
            /\ dirty_ids' = dirty_ids \cup {id}
            /\ ret' = Ok("delete_issue", id, force, None)
            /\ UNCHANGED <<comments, next_comment_id, prefix, jsonl_path>>

\* InMemoryStore::delete_issue
delete_issue(id, actor, force, now) ==
    IF ~contains_key(issues, id)
    THEN /\ ret' = Err("delete_issue", id, force, "IssueNotFound")
         /\ UNCHANGED storeVars
    ELSE IF ~force /\ get_dependents(id) # <<>>
    THEN /\ ret' = [Err("delete_issue", id, force, "HasDependents")
                        EXCEPT !.val = Some(Len(get_dependents(id)))]
         /\ UNCHANGED storeVars
    ELSE
        LET log == record_event(CurrentLog, id, "Deleted", actor, None, None, now)
        IN  /\ issues' = MapRemove(issues, id)
            /\ labels' = MapRemove(labels, id)
            /\ comments' = MapRemove(comments, id)
            /\ dependencies' = SelectSeq(dependencies,
                                  LAMBDA d : d.issue_id # id /\ d.depends_on_id # id)
            /\ events' = log.events
            /\ next_event_id' = log.next_event_id
            /\ dirty_ids' = dirty_ids \cup {id}
            /\ ret' = Ok("delete_issue", id, force, None)
            /\ UNCHANGED <<next_comment_id, prefix, jsonl_path>>

\* ------------------------------------------------------------------------
\* Store: dependencies
\* ------------------------------------------------------------------------
dependency_exists(issue_id, depends_on_id) ==
    \E i \in 1..Len(dependencies) :
        /\ dependencies[i].issue_id = issue_id
        /\ dependencies[i].depends_on_id = depends_on_id

\* the targets of the edges of a blocking type only
TargetsOf_blocking(deps, current) ==
    LET sel == SelectSeq(deps, LAMBDA d : d.issue_id = current /\ is_blocking(d.dep_type))
    IN  [i \in 1..Len(sel) |-> sel[i].depends_on_id]

\* the targets pushed by `for dep in &self.dependencies`, in vector order
RECURSIVE TargetsOf(_, _)
TargetsOf(deps, current) ==
    IF deps = <<>> THEN <<>>
    ELSE (IF deps[1].issue_id = current THEN <<deps[1].depends_on_id>> ELSE <<>>)
            \o TargetsOf(Tail(deps), current)

\* the `while let Some(current) = queue.pop_front()` loop
RECURSIVE cycle_bfs(_, _, _)
cycle_bfs(queue, visited, issue_id) ==
    IF queue = <<>> THEN FALSE
    ELSE LET current == Head(queue)
         IN  IF current = issue_id THEN TRUE
             ELSE IF current \in visited
             THEN cycle_bfs(Tail(queue), visited, issue_id)
             ELSE cycle_bfs(Tail(queue) \o TargetsOf(dependencies, current),
                            visited \cup {current}, issue_id)

\* a cycle check that looks at the direct reverse edge only
would_create_cycle_direct(issue_id, depends_on_id) ==
    dependency_exists(depends_on_id, issue_id)

would_create_cycle(issue_id, depends_on_id) ==
    cycle_bfs(<<depends_on_id>>, {}, issue_id)

\* add_dependency testing for a cycle before it tests for a duplicate
add_dependency_cycle_first(issue_id, depends_on_id, dep_type, actor, metadata, now) ==
    LET arg == [depends_on_id |-> depends_on_id, dep_type |-> dep_type]
    IN
    IF issue_id = depends_on_id
    THEN /\ ret' = Err("add_dependency", issue_id, arg, "SelfDependency")
         /\ UNCHANGED storeVars
    ELSE IF ~contains_key(issues, issue_id)
    THEN /\ ret' = Err("add_dependency", issue_id, arg, "IssueNotFound")
         /\ UNCHANGED storeVars
    ELSE IF ~contains_key(issues, depends_on_id)
    THEN /\ ret' = Err("add_dependency", issue_id, arg, "DependencyNotFound")
         /\ UNCHANGED storeVars
    ELSE IF would_create_cycle(issue_id, depends_on_id)
    THEN /\ ret' = [Err("add_dependency", issue_id, arg, "DependencyCycle")
                        EXCEPT !.val = Some(issue_id \o " -> " \o depends_on_id)]
         /\ UNCHANGED storeVars
    ELSE IF dependency_exists(issue_id, depends_on_id)
    THEN /\ ret' = Err("add_dependency", issue_id, arg, "DuplicateDependency")
         /\ UNCHANGED storeVars
    ELSE
        LET log == record_event(CurrentLog, issue_id, "DependencyAdded", actor,
                                None, Some(depends_on_id), now)
        IN  /\ dependencies' = Append(dependencies,
                                  Dependency(issue_id, depends_on_id, dep_type, now,
                                             Some(actor), metadata))
            /\ events' = log.events
            /\ next_event_id' = log.next_event_id
            /\ dirty_ids' = dirty_ids \cup {issue_id}
            /\ ret' = Ok("add_dependency", issue_id, arg, None)
            /\ UNCHANGED <<issues, labels, comments, next_comment_id, prefix,
                           jsonl_path>>

\* InMemoryStore::add_dependency
add_dependency(issue_id, depends_on_id, dep_type, actor, metadata, now) ==
    LET arg == [depends_on_id |-> depends_on_id, dep_type |-> dep_type]
    IN
    IF issue_id = depends_on_id
    THEN /\ ret' = Err("add_dependency", issue_id, arg, "SelfDependency")
         /\ UNCHANGED storeVars
    ELSE IF ~contains_key(issues, issue_id)
    THEN /\ ret' = Err("add_dependency", issue_id, arg, "IssueNotFound")
         /\ UNCHANGED storeVars
    ELSE IF ~contains_key(issues, depends_on_id)
    THEN /\ ret' = Err("add_dependency", issue_id, arg, "DependencyNotFound")
         /\ UNCHANGED storeVars
    ELSE IF dependency_exists(issue_id, depends_on_id)
    THEN /\ ret' = Err("add_dependency", issue_id, arg, "DuplicateDependency")
         /\ UNCHANGED storeVars
    ELSE IF would_create_cycle(issue_id, depends_on_id)
    THEN /\ ret' = [Err("add_dependency", issue_id, arg, "DependencyCycle")
                        EXCEPT !.val = Some(issue_id \o " -> " \o depends_on_id)]
         /\ UNCHANGED storeVars
    ELSE
        LET log == record_event(CurrentLog, issue_id, "DependencyAdded", actor,
                                None, Some(depends_on_id), now)
        IN  /\ dependencies' = Append(dependencies,
                                  Dependency(issue_id, depends_on_id, dep_type, now,
                                             Some(actor), metadata))
            /\ events' = log.events
            /\ next_event_id' = log.next_event_id
            /\ dirty_ids' = dirty_ids \cup {issue_id}
            /\ ret' = Ok("add_dependency", issue_id, arg, None)
            /\ UNCHANGED <<issues, labels, comments, next_comment_id, prefix,
                           jsonl_path>>

remove_dependency(issue_id, depends_on_id, actor, now) ==
    LET arg == [depends_on_id |-> depends_on_id]
        before == Len(dependencies)
        retained == SelectSeq(dependencies,
                       LAMBDA d : ~(d.issue_id = issue_id
                                    /\ d.depends_on_id = depends_on_id))
    IN  IF Len(retained) = before
        THEN /\ dependencies' = retained
             /\ ret' = Err("remove_dependency", issue_id, arg, "NothingToDo")
             /\ UNCHANGED <<issues, labels, comments, events, dirty_ids,
                            next_event_id, next_comment_id, prefix, jsonl_path>>
        ELSE
            LET log == record_event(CurrentLog, issue_id, "DependencyRemoved", actor,
                                    Some(depends_on_id), None, now)
            IN  /\ dependencies' = retained
                /\ events' = log.events
                /\ next_event_id' = log.next_event_id
                /\ dirty_ids' = dirty_ids \cup {issue_id}
                /\ ret' = Ok("remove_dependency", issue_id, arg, None)
                /\ UNCHANGED <<issues, labels, comments, next_comment_id, prefix,
                               jsonl_path>>

\* ------------------------------------------------------------------------
\* Store: labels and comments
\* ------------------------------------------------------------------------
SeqContains(seq, x) == \E i \in 1..Len(seq) : seq[i] = x

\* Vec::remove(pos)
SeqRemoveAt(seq, pos) == SubSeq(seq, 1, pos - 1) \o SubSeq(seq, pos + 1, Len(seq))

\* iter().position(|l| l == x)
Position(seq, x) == CHOOSE i \in 1..Len(seq) : seq[i] = x /\ \A j \in 1..(i - 1) : seq[j] # x

add_label(issue_id, label, actor, now) ==
    IF ~contains_key(issues, issue_id)
    THEN /\ ret' = Err("add_label", issue_id, label, "IssueNotFound")
         /\ UNCHANGED storeVars
    ELSE
        \* entry(issue_id).or_default()
        LET entry == IF contains_key(labels, issue_id) THEN labels
                     ELSE MapInsert(labels, issue_id, <<>>)
        IN  IF ~SeqContains(entry[issue_id], label)
            THEN LET log == record_event(CurrentLog, issue_id, "LabelAdded", actor,
                                         None, Some(label), now)
                 IN  /\ labels' = [entry EXCEPT ![issue_id] = Append(@, label)]
                     /\ events' = log.events
                     /\ next_event_id' = log.next_event_id
                     /\ dirty_ids' = dirty_ids \cup {issue_id}
                     /\ ret' = Ok("add_label", issue_id, label, None)
                     /\ UNCHANGED <<issues, dependencies, comments, next_comment_id,
                                    prefix, jsonl_path>>
            ELSE /\ labels' = entry
                 /\ ret' = Ok("add_label", issue_id, label, None)
                 /\ UNCHANGED <<issues, dependencies, comments, events, dirty_ids,
                                next_event_id, next_comment_id, prefix, jsonl_path>>

remove_label(issue_id, label, actor, now) ==
    IF ~contains_key(issues, issue_id)
    THEN /\ ret' = Err("remove_label", issue_id, label, "IssueNotFound")
         /\ UNCHANGED storeVars
    ELSE IF contains_key(labels, issue_id) /\ SeqContains(labels[issue_id], label)
    THEN LET log == record_event(CurrentLog, issue_id, "LabelRemoved", actor,
                                 Some(label), None, now)
         IN  /\ labels' = [labels EXCEPT
                             ![issue_id] = SeqRemoveAt(@, Position(@, label))]
             /\ events' = log.events
             /\ next_event_id' = log.next_event_id
             /\ dirty_ids' = dirty_ids \cup {issue_id}
             /\ ret' = Ok("remove_label", issue_id, label, None)
             /\ UNCHANGED <<issues, dependencies, comments, next_comment_id, prefix,
                            jsonl_path>>
    ELSE /\ ret' = Ok("remove_label", issue_id, label, None)
         /\ UNCHANGED storeVars

\* set_labels that leaves the dirty set alone
set_labels_unmarked(issue_id, new_labels) ==
    IF ~contains_key(issues, issue_id)
    THEN /\ ret' = Err("set_labels", issue_id, new_labels, "IssueNotFound")
         /\ UNCHANGED storeVars
    ELSE /\ labels' = MapInsert(labels, issue_id, new_labels)
         /\ ret' = Ok("set_labels", issue_id, new_labels, None)
         /\ UNCHANGED <<issues, dependencies, comments, events, dirty_ids,
                        next_event_id, next_comment_id, prefix, jsonl_path>>

set_labels(issue_id, new_labels) ==
    IF ~contains_key(issues, issue_id)
    THEN /\ ret' = Err("set_labels", issue_id, new_labels, "IssueNotFound")
         /\ UNCHANGED storeVars
    ELSE /\ labels' = MapInsert(labels, issue_id, new_labels)
         /\ dirty_ids' = dirty_ids \cup {issue_id}
         /\ ret' = Ok("set_labels", issue_id, new_labels, None)
         /\ UNCHANGED <<issues, dependencies, comments, events, next_event_id,
                        next_comment_id, prefix, jsonl_path>>

add_comment(issue_id, author, body, now) ==
    IF ~contains_key(issues, issue_id)
    THEN /\ ret' = Err("add_comment", issue_id, body, "IssueNotFound")
         /\ UNCHANGED storeVars
    ELSE
        LET comment == Comment(next_comment_id, issue_id, author, body, now)
            entry == IF contains_key(comments, issue_id) THEN comments
                     ELSE MapInsert(comments, issue_id, <<>>)
            log == record_event(CurrentLog, issue_id, "Commented", author, None,
                                Some(body), now)
        IN  /\ next_comment_id' = next_comment_id + 1
            /\ comments' = [entry EXCEPT ![issue_id] = Append(@, comment)]
            /\ events' = log.events
            /\ next_event_id' = log.next_event_id
            /\ dirty_ids' = dirty_ids \cup {issue_id}
            /\ ret' = Ok("add_comment", issue_id, body, comment)
            /\ UNCHANGED <<issues, labels, dependencies, prefix, jsonl_path>>

\* ------------------------------------------------------------------------
\* Store: ready and blocked queries
\* ------------------------------------------------------------------------
\* Status::is_active
is_active(st) == st.tag \in {"Open", "InProgress"}

\* is_blocked with the test of the target's status left out
is_blocked_by_closed(issue_id) ==
    \E i \in 1..Len(dependencies) :
        /\ dependencies[i].issue_id = issue_id
        /\ is_blocking(dependencies[i].dep_type)
        /\ contains_key(issues, dependencies[i].depends_on_id)

\* is_blocked with the test of the edge's type left out
is_blocked_by_any_edge(issue_id) ==
    \E i \in 1..Len(dependencies) :
        /\ dependencies[i].issue_id = issue_id
        /\ contains_key(issues, dependencies[i].depends_on_id)
        /\ ~is_terminal(issues[dependencies[i].depends_on_id].status)

\* InMemoryStore::is_blocked
is_blocked(issue_id) ==
    \E i \in 1..Len(dependencies) :
        /\ dependencies[i].issue_id = issue_id
        /\ is_blocking(dependencies[i].dep_type)
        /\ contains_key(issues, dependencies[i].depends_on_id)
        /\ ~is_terminal(issues[dependencies[i].depends_on_id].status)

\* InMemoryStore::get_blocked_issues, over the map's values in the given
\* iteration order
get_blocked_issues(order) ==
    SelectSeq([i \in 1..Len(order) |-> issues[order[i]]],
              LAMBDA issue : ~is_terminal(issue.status) /\ is_blocked(issue.id))

\* InMemoryStore::get_labels
get_labels(issue_id) == IF contains_key(labels, issue_id) THEN labels[issue_id] ELSE <<>>

\* str::starts_with
starts_with(s, pat) == Len(s) >= Len(pat) /\ SubSeq(s, 1, Len(pat)) = pat

\* ReadyFilters::default()
DefaultReadyFilters ==
    [assignee |-> None, unassigned |-> FALSE, labels_and |-> <<>>, labels_or |-> <<>>,
     types |-> None, priorities |-> None, include_deferred |-> FALSE, limit |-> None,
     parent |-> None, recursive |-> FALSE]

\* the `is_child` of is_ready_issue's parent filter
is_child(id, parent, recursive) ==
    IF recursive
    THEN starts_with(id, parent) /\ Len(id) > Len(parent)
    ELSE /\ starts_with(id, parent)
         /\ Len(id) > Len(parent)
         /\ CharAt(id, Len(parent) + 1) = "."
         /\ ~contains(SubSeq(id, Len(parent) + 2, Len(id)), ".")

\* is_ready_issue without `if issue.is_template { return false; }`
is_ready_issue_with_templates(issue, filters) ==
    /\ is_active(issue.status)
            \/ (filters.include_deferred /\ issue.status = StatusDeferred)
    /\ ~is_blocked(issue.id)
    /\ ~(filters.unassigned /\ is_some(issue.assignee))
    /\ is_some(filters.assignee) => issue.assignee = filters.assignee
    /\ is_some(filters.types) => SeqContains(filters.types.v, issue.issue_type)
    /\ is_some(filters.priorities) => SeqContains(filters.priorities.v, issue.priority)
    /\ \A i \in 1..Len(filters.labels_and) :
            SeqContains(get_labels(issue.id), filters.labels_and[i])
    /\ filters.labels_or # <<>>
            => \E i \in 1..Len(filters.labels_or) :
                    SeqContains(get_labels(issue.id), filters.labels_or[i])
    /\ is_some(filters.parent) => is_child(issue.id, filters.parent.v, filters.recursive)

\* InMemoryStore::is_ready_issue
is_ready_issue(issue, filters) ==
    /\ is_active(issue.status)
            \/ (filters.include_deferred /\ issue.status = StatusDeferred)
    /\ ~is_blocked(issue.id)
    /\ ~issue.is_template
    /\ ~(filters.unassigned /\ is_some(issue.assignee))
    /\ is_some(filters.assignee) => issue.assignee = filters.assignee
    /\ is_some(filters.types) => SeqContains(filters.types.v, issue.issue_type)
    /\ is_some(filters.priorities) => SeqContains(filters.priorities.v, issue.priority)
    /\ \A i \in 1..Len(filters.labels_and) :
            SeqContains(get_labels(issue.id), filters.labels_and[i])
    /\ filters.labels_or # <<>>
            => \E i \in 1..Len(filters.labels_or) :
                    SeqContains(get_labels(issue.id), filters.labels_or[i])
    /\ is_some(filters.parent) => is_child(issue.id, filters.parent.v, filters.recursive)

\* the comparators of get_ready_issues: a orders strictly before b
ReadyLess_hybrid_by_priority(sort_policy, a, b) ==
    CASE sort_policy \in {"Hybrid", "Priority"} ->
            \/ a.priority < b.priority
            \/ a.priority = b.priority /\ a.created_at < b.created_at
      [] sort_policy = "Oldest" -> a.created_at < b.created_at

ReadyLess(sort_policy, a, b) ==
    CASE sort_policy = "Hybrid" ->
            IF (a.priority <= 1) # (b.priority <= 1) THEN a.priority <= 1
            ELSE a.created_at < b.created_at
      [] sort_policy = "Priority" ->
            \/ a.priority < b.priority
            \/ a.priority = b.priority /\ a.created_at < b.created_at
      [] sort_policy = "Oldest" -> a.created_at < b.created_at

\* the stable sort of `results.sort_by`: x goes in front of the first
\* element it orders strictly before
RECURSIVE ReadyInsert(_, _, _)
ReadyInsert(sort_policy, sorted, x) ==
    IF sorted = <<>> THEN <<x>>
    ELSE IF ReadyLess(sort_policy, x, sorted[Len(sorted)]) 
    THEN ReadyInsert(sort_policy, SubSeq(sorted, 1, Len(sorted) - 1), x)
            \o <<sorted[Len(sorted)]>>
    ELSE sorted \o <<x>>

RECURSIVE ReadySort(_, _)
ReadySort(sort_policy, vec) ==
    IF vec = <<>> THEN <<>>
    ELSE ReadyInsert(sort_policy, ReadySort(sort_policy, SubSeq(vec, 1, Len(vec) - 1)),
                     vec[Len(vec)])

\* Vec::truncate
truncate(vec, len) == IF len < Len(vec) THEN SubSeq(vec, 1, len) ELSE vec

\* InMemoryStore::get_ready_issues, over the map's values in the given
\* iteration order
get_ready_issues(filters, sort_policy, order) ==
    LET results == SelectSeq([i \in 1..Len(order) |-> issues[order[i]]],
                             LAMBDA issue : is_ready_issue(issue, filters))
        sorted == ReadySort(sort_policy, results)
    IN  IF is_some(filters.limit) THEN truncate(sorted, filters.limit.v) ELSE sorted

\* ------------------------------------------------------------------------
\* Store: dirty tracking
\* ------------------------------------------------------------------------
clear_dirty ==
    /\ dirty_ids' = {}
    /\ ret' = Ok("clear_dirty", "", None, None)
    /\ UNCHANGED <<issues, labels, dependencies, comments, events, next_event_id,
                   next_comment_id, prefix, jsonl_path>>

\* ------------------------------------------------------------------------
\* Journal (jsonl.rs) and the serde contracts of model.rs
\* ------------------------------------------------------------------------
\* A JSON object is a function from the keys it holds to their values; a
\* file is a sequence of lines, and a line is a JSON object, blank, or
\* text that does not parse.  serde writes the keys of a struct in
\* declaration order, so equal objects are equal bytes.
JsonLine(obj) == [kind |-> "json", obj |-> obj]

GarbageLine == [kind |-> "garbage", obj |-> EmptyMap]

\* #[serde(default, skip_serializing_if = "Option::is_none")]
OptField(key, o) == IF o.some THEN key :> o.v ELSE EmptyMap

\* #[serde(default, skip_serializing_if = "is_false")]
BoolField(key, b) == IF b THEN key :> TRUE ELSE EmptyMap

\* #[serde(skip_serializing_if = "Vec::is_empty", default)]
VecField(key, vec) == IF vec # <<>> THEN key :> vec ELSE EmptyMap

\* reading an optional key back
OptGet(obj, key) == IF key \in DOMAIN obj THEN Some(obj[key]) ELSE None

BoolGet(obj, key) == IF key \in DOMAIN obj THEN obj[key] ELSE FALSE

VecGet(obj, key) == IF key \in DOMAIN obj THEN obj[key] ELSE <<>>

\* DateTime<Utc> as RFC3339 text and back
TimeDomain == 0..3

TimeToJson(t) == "1970-01-01T00:00:0" \o ToString(t) \o "Z"

TimeFromJson(text) == CHOOSE t \in TimeDomain : TimeToJson(t) = text

OptTimeField(key, o) == IF o.some THEN key :> TimeToJson(o.v) ELSE EmptyMap

OptTimeGet(obj, key) == IF key \in DOMAIN obj THEN Some(TimeFromJson(obj[key])) ELSE None

\* Status: rename_all = "snake_case", Custom untagged
StatusToJson(st) ==
    CASE st.tag = "Open" -> "open"
      [] st.tag = "InProgress" -> "in_progress"
      [] st.tag = "Blocked" -> "blocked"
      [] st.tag = "Deferred" -> "deferred"
      [] st.tag = "Closed" -> "closed"
      [] st.tag = "Tombstone" -> "tombstone"
      [] st.tag = "Pinned" -> "pinned"
      [] OTHER -> st.v

StatusFromJson(text) ==
    CASE text = "open" -> StatusOpen
      [] text = "in_progress" -> StatusInProgress
      [] text = "blocked" -> StatusBlocked
      [] text = "deferred" -> StatusDeferred
      [] text = "closed" -> StatusClosed
      [] text = "tombstone" -> StatusTombstone
      [] text = "pinned" -> StatusPinned
      [] OTHER -> StatusCustom(text)

IssueTypeNames ==
    [Task |-> "task", Bug |-> "bug", Feature |-> "feature", Epic |-> "epic",
     Chore |-> "chore", Docs |-> "docs", Question |-> "question"]

IssueTypeToJson(t) == IF t.tag \in DOMAIN IssueTypeNames THEN IssueTypeNames[t.tag] ELSE t.v

IssueTypeFromJson(text) ==
    IF \E tag \in DOMAIN IssueTypeNames : IssueTypeNames[tag] = text
    THEN [tag |-> CHOOSE tag \in DOMAIN IssueTypeNames : IssueTypeNames[tag] = text,
          v |-> ""]
    ELSE TypeCustom(text)

DependencyTypeNames ==
    [Blocks |-> "blocks", ParentChild |-> "parent-child",
     ConditionalBlocks |-> "conditional-blocks", WaitsFor |-> "waits-for",
     Related |-> "related", DiscoveredFrom |-> "discovered-from",
     RepliesTo |-> "replies-to", RelatesTo |-> "relates-to",
     Duplicates |-> "duplicates", Supersedes |-> "supersedes",
     CausedBy |-> "caused-by"]

DependencyTypeToJson(t) ==
    IF t.tag \in DOMAIN DependencyTypeNames THEN DependencyTypeNames[t.tag] ELSE t.v

DependencyTypeFromJson(text) ==
    IF \E tag \in DOMAIN DependencyTypeNames : DependencyTypeNames[tag] = text
    THEN [tag |-> CHOOSE tag \in DOMAIN DependencyTypeNames :
                        DependencyTypeNames[tag] = text,
          v |-> ""]
    ELSE DepCustom(text)

\* serialize_compaction_level
serialize_compaction_level(value) == IF value.some THEN value.v ELSE 0

DependencyToJson(d) ==
    ("issue_id" :> d.issue_id) @@ ("depends_on_id" :> d.depends_on_id)
        @@ ("type" :> DependencyTypeToJson(d.dep_type))
        @@ ("created_at" :> TimeToJson(d.created_at))
        @@ OptField("created_by", d.created_by)
        @@ OptField("metadata", d.metadata)
        @@ OptField("thread_id", d.thread_id)

DependencyFromJson(obj) ==
    [issue_id |-> obj["issue_id"], depends_on_id |-> obj["depends_on_id"],
     dep_type |-> DependencyTypeFromJson(obj["type"]),
     created_at |-> TimeFromJson(obj["created_at"]),
     created_by |-> OptGet(obj, "created_by"), metadata |-> OptGet(obj, "metadata"),
     thread_id |-> OptGet(obj, "thread_id")]

CommentToJson(c) ==
    ("id" :> c.id) @@ ("issue_id" :> c.issue_id) @@ ("author" :> c.author)
        @@ ("text" :> c.body) @@ ("created_at" :> TimeToJson(c.created_at))

CommentFromJson(obj) ==
    [id |-> obj["id"], issue_id |-> obj["issue_id"], author |-> obj["author"],
     body |-> obj["text"], created_at |-> TimeFromJson(obj["created_at"])]

MapSeq(f(_), seq) == [i \in 1..Len(seq) |-> f(seq[i])]

\* serde_json::to_string(&Issue); content_hash is #[serde(skip)]
IssueToJson(issue) ==
    ("id" :> issue.id) @@ ("title" :> issue.title)
        @@ OptField("description", issue.description)
        @@ OptField("design", issue.design)
        @@ OptField("acceptance_criteria", issue.acceptance_criteria)
        @@ OptField("notes", issue.notes)
        @@ ("status" :> StatusToJson(issue.status))
        @@ ("priority" :> issue.priority)
        @@ ("issue_type" :> IssueTypeToJson(issue.issue_type))
        @@ OptField("assignee", issue.assignee)
        @@ OptField("owner", issue.owner)
        @@ OptField("estimated_minutes", issue.estimated_minutes)
        @@ ("created_at" :> TimeToJson(issue.created_at))
        @@ OptField("created_by", issue.created_by)
        @@ ("updated_at" :> TimeToJson(issue.updated_at))
        @@ OptTimeField("closed_at", issue.closed_at)
        @@ OptField("close_reason", issue.close_reason)
        @@ OptField("closed_by_session", issue.closed_by_session)
        @@ OptTimeField("due_at", issue.due_at)
        @@ OptTimeField("defer_until", issue.defer_until)
        @@ OptField("external_ref", issue.external_ref)
        @@ OptField("source_system", issue.source_system)
        @@ OptTimeField("deleted_at", issue.deleted_at)
        @@ OptField("deleted_by", issue.deleted_by)
        @@ OptField("delete_reason", issue.delete_reason)
        @@ ("compaction_level" :> serialize_compaction_level(issue.compaction_level))
        @@ BoolField("pinned", issue.pinned)
        @@ BoolField("is_template", issue.is_template)
        @@ VecField("labels", issue.labels)
        @@ VecField("dependencies", MapSeq(DependencyToJson, issue.dependencies))
        @@ VecField("comments", MapSeq(CommentToJson, issue.comments))

\* serde_json::from_str::<Issue>
IssueFromJson(obj) ==
    [id |-> obj["id"], content_hash |-> None, title |-> obj["title"],
     description |-> OptGet(obj, "description"), design |-> OptGet(obj, "design"),
     acceptance_criteria |-> OptGet(obj, "acceptance_criteria"),
     notes |-> OptGet(obj, "notes"),
     status |-> IF "status" \in DOMAIN obj THEN StatusFromJson(obj["status"])
                ELSE StatusOpen,
     priority |-> IF "priority" \in DOMAIN obj THEN obj["priority"] ELSE 0,
     issue_type |-> IF "issue_type" \in DOMAIN obj
                    THEN IssueTypeFromJson(obj["issue_type"]) ELSE TypeTask,
     assignee |-> OptGet(obj, "assignee"), owner |-> OptGet(obj, "owner"),
     estimated_minutes |-> OptGet(obj, "estimated_minutes"),
     created_at |-> TimeFromJson(obj["created_at"]),
     created_by |-> OptGet(obj, "created_by"),
     updated_at |-> TimeFromJson(obj["updated_at"]),
     closed_at |-> OptTimeGet(obj, "closed_at"),
     close_reason |-> OptGet(obj, "close_reason"),
     closed_by_session |-> OptGet(obj, "closed_by_session"),
     due_at |-> OptTimeGet(obj, "due_at"),
     defer_until |-> OptTimeGet(obj, "defer_until"),
     external_ref |-> OptGet(obj, "external_ref"),
     source_system |-> OptGet(obj, "source_system"),
     deleted_at |-> OptTimeGet(obj, "deleted_at"),
     deleted_by |-> OptGet(obj, "deleted_by"),
     delete_reason |-> OptGet(obj, "delete_reason"),
     compaction_level |-> OptGet(obj, "compaction_level"),
     pinned |-> BoolGet(obj, "pinned"), is_template |-> BoolGet(obj, "is_template"),
     labels |-> VecGet(obj, "labels"),
     dependencies |-> MapSeq(DependencyFromJson, VecGet(obj, "dependencies")),
     comments |-> MapSeq(CommentFromJson, VecGet(obj, "comments"))]

\* LoadedData, with the outcome of the call in err
LoadedEmpty == [err |-> "ok", issues |-> <<>>, labels |-> <<>>, dependencies |-> <<>>,
                comments |-> <<>>]

\* the body of the `for (line_num, line) in reader.lines().enumerate()` loop
RECURSIVE load_lines(_, _, _)
load_lines(lines, line_num, acc) ==
    IF line_num > Len(lines) THEN acc
    ELSE LET line == lines[line_num]
         IN  IF line.kind = "blank" THEN load_lines(lines, line_num + 1, acc)
             ELSE IF line.kind # "json"
             THEN [acc EXCEPT !.err = "JsonlParse:" \o ToString(line_num)]
             ELSE LET issue == IssueFromJson(line.obj)
                  IN  load_lines(lines, line_num + 1,
                        [err |-> "ok",
                         issues |-> Append(acc.issues,
                                       [issue EXCEPT !.labels = <<>>,
                                                     !.dependencies = <<>>,
                                                     !.comments = <<>>]),
                         labels |-> IF issue.labels # <<>>
                                    THEN Append(acc.labels, <<issue.id, issue.labels>>)
                                    ELSE acc.labels,
                         dependencies |-> acc.dependencies \o issue.dependencies,
                         comments |-> IF issue.comments # <<>>
                                      THEN Append(acc.comments,
                                                  <<issue.id, issue.comments>>)
                                      ELSE acc.comments])

\* jsonl::load on a disk; disk is a function from the paths that exist
load(disk, path) ==
    IF path \notin DOMAIN disk THEN [LoadedEmpty EXCEPT !.err = "FileNotFound"]
    ELSE load_lines(disk[path], 1, LoadedEmpty)

\* HashMap built by collect() from a vector of pairs: later pairs win
RECURSIVE CollectMap(_)
CollectMap(pairs) ==
    IF pairs = <<>> THEN EmptyMap
    ELSE MapInsert(CollectMap(SubSeq(pairs, 1, Len(pairs) - 1)),
                   pairs[Len(pairs)][1], pairs[Len(pairs)][2])

\* a save_line that embeds the comments of an issue last first
save_line_comments_reversed(issue, label_map, all_dependencies, comment_map) ==
    LET deps == SelectSeq(all_dependencies, LAMBDA d : d.issue_id = issue.id)
        full_issue ==
            [issue EXCEPT
               !.labels = IF issue.id \in DOMAIN label_map
                          THEN label_map[issue.id] ELSE @,
               !.dependencies = IF deps # <<>> THEN deps ELSE @,
               !.comments = IF issue.id \in DOMAIN comment_map
                            THEN [i \in 1..Len(comment_map[issue.id]) |->
                                    comment_map[issue.id][Len(comment_map[issue.id]) + 1 - i]]
                            ELSE @]
    IN  JsonLine(IssueToJson(full_issue))

\* the line jsonl::save writes for one issue
save_line(issue, label_map, all_dependencies, comment_map) ==
    LET deps == SelectSeq(all_dependencies, LAMBDA d : d.issue_id = issue.id)
        full_issue ==
            [issue EXCEPT
               !.labels = IF issue.id \in DOMAIN label_map
                          THEN label_map[issue.id] ELSE @,
               !.dependencies = IF deps # <<>> THEN deps ELSE @,
               !.comments = IF issue.id \in DOMAIN comment_map
                            THEN comment_map[issue.id] ELSE @]
    IN  JsonLine(IssueToJson(full_issue))

\* everything jsonl::save writes to the temp file
save_lines(issue_vec, label_pairs, all_dependencies, comment_pairs) ==
    [i \in 1..Len(issue_vec) |->
        save_line(issue_vec[i], CollectMap(label_pairs), all_dependencies,
                  CollectMap(comment_pairs))]

\* Path::with_extension("jsonl.tmp"): the text after the last dot of the
\* file name is replaced
with_extension(path, ext) ==
    LET dot == rfind(path, ".")
        stem == IF dot > 1 THEN SubSeq(path, 1, dot - 1) ELSE path
    IN  stem \o "." \o ext

\* a save that writes the destination itself
in_place_path(path) == path

tmp_path_of(path) == with_extension(path, "jsonl.tmp")

\* ------------------------------------------------------------------------
\* Store: lifecycle (open, save_to) and bulk export
\* ------------------------------------------------------------------------
\* byte order of the characters used in ids
OrderedChars == " #-.0123456789ABCDEFGHIJKLMNOPQRSTUVWXYZ_abcdefghijklmnopqrstuvwxyz|"

CharRank(c) ==
    IF \E i \in 1..Len(OrderedChars) : CharAt(OrderedChars, i) = c
    THEN CHOOSE i \in 1..Len(OrderedChars) : CharAt(OrderedChars, i) = c
    ELSE 0

\* a.cmp(b) == Less for strings
RECURSIVE StrLess(_, _)
StrLess(a, b) ==
    IF Len(b) = 0 THEN FALSE
    ELSE IF Len(a) = 0 THEN TRUE
    ELSE IF CharAt(a, 1) = CharAt(b, 1)
    THEN StrLess(SubSeq(a, 2, Len(a)), SubSeq(b, 2, Len(b)))
    ELSE CharRank(CharAt(a, 1)) < CharRank(CharAt(b, 1))

\* stable insertion of x into a vector sorted by id
RECURSIVE InsertById(_, _)
InsertById(sorted, x) ==
    IF sorted = <<>> THEN <<x>>
    ELSE IF StrLess(x.id, sorted[1].id) THEN <<x>> \o sorted
    ELSE <<sorted[1]>> \o InsertById(Tail(sorted), x)

\* issues.sort_by(|a, b| a.id.cmp(&b.id))
RECURSIVE SortById(_)
SortById(vec) ==
    IF vec = <<>> THEN <<>>
    ELSE InsertById(SortById(SubSeq(vec, 1, Len(vec) - 1)), vec[Len(vec)])

\* the orders in which a HashMap with these keys may be iterated
KeyOrders(keys) ==
    {order \in [1..Cardinality(keys) -> keys] :
        \A i, j \in 1..Cardinality(keys) : i # j => order[i] # order[j]}

\* an export in the map's iteration order
export_in_map_order(values) == values

\* get_all_issues_for_export; values are the map's values in iteration order
get_all_issues_for_export(values) == SortById(values)

get_all_dependency_records == dependencies

\* get_all_labels / get_all_comments: the pairs in iteration order
MapPairs(m, order) == [i \in 1..Len(order) |-> <<order[i], m[order[i]]>>]

\* the `for c in &issue_comments` loop of open(): the counter after the loop
RECURSIVE TrackCommentIds(_, _)
TrackCommentIds(next, comment_vec) ==
    IF comment_vec = <<>> THEN next
    ELSE TrackCommentIds(IF comment_vec[1].id >= next THEN comment_vec[1].id + 1
                         ELSE next,
                         Tail(comment_vec))

RECURSIVE TrackAllCommentIds(_, _)
TrackAllCommentIds(next, comment_pairs) ==
    IF comment_pairs = <<>> THEN next
    ELSE TrackAllCommentIds(TrackCommentIds(next, comment_pairs[1][2]),
                            Tail(comment_pairs))

\* for issue in loaded.issues { store.issues.insert(issue.id.clone(), issue) }
RECURSIVE InsertIssues(_, _)
InsertIssues(m, issue_vec) ==
    IF issue_vec = <<>> THEN m
    ELSE InsertIssues(MapInsert(m, issue_vec[1].id, issue_vec[1]), Tail(issue_vec))

\* InMemoryStore::open after a successful load; first_key is the id that
\* store.issues.keys().next() yields (any key, or "" for an empty map)
opened(loaded, path, first_key) ==
    [issues |-> InsertIssues(EmptyMap, loaded.issues),
     labels |-> CollectMap(loaded.labels),
     dependencies |-> loaded.dependencies,
     comments |-> CollectMap(loaded.comments),
     next_comment_id |-> TrackAllCommentIds(1, loaded.comments),
     prefix |-> IF first_key # "" /\ rfind(first_key, "-") > 0
                THEN SubSeq(first_key, 1, rfind(first_key, "-") - 1)
                ELSE "bd",
     jsonl_path |-> Some(path)]

FirstKeys(m) == IF DOMAIN m = {} THEN {""} ELSE DOMAIN m

StoreIs(st) ==
    /\ issues = st.issues
    /\ labels = st.labels
    /\ dependencies = st.dependencies
    /\ comments = st.comments
    /\ events = <<>>
    /\ dirty_ids = {}
    /\ next_event_id = 1
    /\ next_comment_id = st.next_comment_id
    /\ prefix = st.prefix
    /\ jsonl_path = st.jsonl_path

\* what a load returned, as the multisets a round trip is compared on
EdgeBag(deps) ==
    [d \in {deps[i] : i \in 1..Len(deps)} |->
        Cardinality({i \in 1..Len(deps) : deps[i] = d})]

Content(st) ==
    [issues |-> st.issues, labels |-> st.labels, edges |-> EdgeBag(st.dependencies),
     comments |-> st.comments]

open(path) ==
    LET loaded == load(fs, path)
    IN  IF loaded.err # "ok"
        THEN /\ ret' = Err("open", "", path, loaded.err)
             /\ UNCHANGED <<storeVars, hist>>
        ELSE \E first_key \in FirstKeys(InsertIssues(EmptyMap, loaded.issues)) :
                LET st == opened(loaded, path, first_key)
                IN  /\ issues' = st.issues
                    /\ labels' = st.labels
                    /\ dependencies' = st.dependencies
                    /\ comments' = st.comments
                    /\ events' = <<>>
                    /\ dirty_ids' = {}
                    /\ next_event_id' = 1
                    /\ next_comment_id' = st.next_comment_id
                    /\ prefix' = st.prefix
                    /\ jsonl_path' = st.jsonl_path
                    /\ hist' = Append(hist, [kind |-> "load", data |-> Content(st)])
                    /\ ret' = Ok("open", "", path, None)

\* ------------------------------------------------------------------------
\* jsonl::save, one file-system call at a time
\* ------------------------------------------------------------------------
\* pc is where the call stands; lines is what it has to write; prior and
\* siblings record the destination's content and the paths on disk when the
\* call began
SaveIdle ==
    [pc |-> "idle", path |-> "", lines |-> <<>>, written |-> 0, prior |-> None,
     siblings |-> {}]

\* the content of a path, if the path exists
FileAt(disk, path) == IF path \in DOMAIN disk THEN Some(disk[path]) ELSE None

\* save_to: the export vectors are collected and File::create(&tmp_path)
\* truncates or creates the temp file
save_begin(path, issue_order, label_order, comment_order) ==
    /\ save_st.pc = "idle"
    /\ LET issue_vec == get_all_issues_for_export(
                            [i \in 1..Len(issue_order) |-> issues[issue_order[i]]])
           lines == save_lines(issue_vec, MapPairs(labels, label_order),
                               get_all_dependency_records,
                               MapPairs(comments, comment_order))
       IN  /\ save_st' = [pc |-> "writing", path |-> path, lines |-> lines,
                          written |-> 0, prior |-> FileAt(fs, path),
                          siblings |-> DOMAIN fs]
           /\ fs' = (tmp_path_of(path) :> <<>>) @@ fs

\* writeln!(file, "{json}") for the next issue
save_write ==
    /\ save_st.pc = "writing"
    /\ save_st.written < Len(save_st.lines)
    /\ fs' = [fs EXCEPT ![tmp_path_of(save_st.path)] =
                 Append(@, save_st.lines[save_st.written + 1])]
    /\ save_st' = [save_st EXCEPT !.written = @ + 1]

\* file.flush(); drop(file)
save_flush ==
    /\ save_st.pc = "writing"
    /\ save_st.written = Len(save_st.lines)
    /\ save_st' = [save_st EXCEPT !.pc = "flushed"]
    /\ UNCHANGED fs

\* fs::rename(&tmp_path, path): the destination is replaced in one step
save_rename ==
    /\ save_st.pc = "flushed"
    /\ fs' = [p \in (DOMAIN fs \ {tmp_path_of(save_st.path)}) \cup {save_st.path} |->
                 IF p = save_st.path THEN fs[tmp_path_of(save_st.path)] ELSE fs[p]]
    /\ save_st' = [save_st EXCEPT !.pc = "done"]

\* any of the file-system calls fails: save returns Err(Io) where it is
save_io_error ==
    /\ save_st.pc \in {"writing", "flushed"}
    /\ save_st' = [save_st EXCEPT !.pc = "failed"]
    /\ UNCHANGED fs

\* the process is killed while save runs; a kill in the middle of a
\* writeln! may leave a torn line at the end of the temp file
save_crash ==
    /\ save_st.pc \in {"writing", "flushed"}
    /\ save_st' = [save_st EXCEPT !.pc = "crashed"]
    /\ \/ UNCHANGED fs
       \/ /\ save_st.pc = "writing"
          /\ save_st.written < Len(save_st.lines)
          /\ fs' = [fs EXCEPT ![tmp_path_of(save_st.path)] = Append(@, GarbageLine)]

\* ------------------------------------------------------------------------
\* Store: id resolution
\* ------------------------------------------------------------------------
\* the hash portion of an id up to its first '.', for an id with a dash
hash_base(id) ==
    LET hash == SubSeq(id, rfind(id, "-") + 1, Len(id))
    IN  IF find(hash, ".") > 0 THEN SubSeq(hash, 1, find(hash, ".") - 1) ELSE hash

\* resolve_id without the prefix-normalized step
resolve_id_no_prefix_step(input_raw) ==
    LET input == to_lowercase(trim(input_raw))
        with_prefix == prefix \o "-" \o input
        hash_pattern == IF rfind(input, "-") > 0
                        THEN SubSeq(input, rfind(input, "-") + 1, Len(input))
                        ELSE input
        matches == {id \in DOMAIN issues :
                        rfind(id, "-") > 0 /\ contains(hash_base(id), hash_pattern)}
    IN  IF input = "" THEN Err("resolve_id", "", input_raw, "InvalidId")
        ELSE IF contains_key(issues, input) THEN Ok("resolve_id", "", input_raw, input)
        ELSE IF hash_pattern # "" /\ Cardinality(matches) = 1
        THEN Ok("resolve_id", "", input_raw, CHOOSE id \in matches : TRUE)
        ELSE IF hash_pattern # "" /\ Cardinality(matches) > 1
        THEN [Err("resolve_id", "", input_raw, "AmbiguousId")
                EXCEPT !.val = Some(matches)]
        ELSE Err("resolve_id", "", input_raw, "IssueNotFound")

\* InMemoryStore::resolve_id.  The ids an AmbiguousId error carries are a
\* Vec in the iteration order of the map; the model keeps them as a set.
resolve_id(input_raw) ==
    LET input == to_lowercase(trim(input_raw))
        with_prefix == prefix \o "-" \o input
        hash_pattern == IF rfind(input, "-") > 0
                        THEN SubSeq(input, rfind(input, "-") + 1, Len(input))
                        ELSE input
        matches == {id \in DOMAIN issues :
                        rfind(id, "-") > 0 /\ contains(hash_base(id), hash_pattern)}
    IN  IF input = "" THEN Err("resolve_id", "", input_raw, "InvalidId")
        ELSE IF contains_key(issues, input) THEN Ok("resolve_id", "", input_raw, input)
        ELSE IF ~contains(input, "-") /\ contains_key(issues, with_prefix)
        THEN Ok("resolve_id", "", input_raw, with_prefix)
        ELSE IF hash_pattern # "" /\ Cardinality(matches) = 1
        THEN Ok("resolve_id", "", input_raw, CHOOSE id \in matches : TRUE)
        ELSE IF hash_pattern # "" /\ Cardinality(matches) > 1
        THEN [Err("resolve_id", "", input_raw, "AmbiguousId")
                EXCEPT !.val = Some(matches)]
        ELSE Err("resolve_id", "", input_raw, "IssueNotFound")

\* ------------------------------------------------------------------------
\* Store: list query
\* ------------------------------------------------------------------------
\* ListFilters::default().  The Vec filters are only asked `contains`, so
\* they are kept as sets.
DefaultListFilters ==
    [statuses |-> None, types |-> None, priorities |-> None, assignee |-> None,
     unassigned |-> FALSE, include_closed |-> FALSE, include_deferred |-> FALSE,
     include_templates |-> FALSE, title_contains |-> None, limit |-> None,
     sort |-> None, reverse |-> FALSE, labels |-> None, labels_or |-> None,
     updated_before |-> None, updated_after |-> None]

\* matches_list_filters with the closed and deferred tests made whether or
\* not statuses is given
matches_list_filters_always_hiding(issue, filters) ==
    /\ is_some(filters.statuses) => issue.status \in filters.statuses.v
    /\ ~(~filters.include_closed /\ is_terminal(issue.status))
    /\ ~(~filters.include_deferred /\ issue.status = StatusDeferred)
    /\ ~(~filters.include_templates /\ issue.is_template)
    /\ ~(filters.unassigned /\ is_some(issue.assignee))
    /\ is_some(filters.assignee) => issue.assignee = filters.assignee

\* InMemoryStore::matches_list_filters
matches_list_filters(issue, filters) ==
    /\ IF is_some(filters.statuses)
       THEN issue.status \in filters.statuses.v
       ELSE /\ ~(~filters.include_closed /\ is_terminal(issue.status))
            /\ ~(~filters.include_deferred /\ issue.status = StatusDeferred)
    /\ ~(~filters.include_templates /\ issue.is_template)
    /\ is_some(filters.types) => issue.issue_type \in filters.types.v
    /\ is_some(filters.priorities) => issue.priority \in filters.priorities.v
    /\ ~(filters.unassigned /\ is_some(issue.assignee))
    /\ is_some(filters.assignee) => issue.assignee = filters.assignee
    /\ is_some(filters.title_contains)
        => contains(to_lowercase(issue.title), to_lowercase(filters.title_contains.v))
    /\ is_some(filters.labels)
        => \A l \in filters.labels.v : SeqContains(get_labels(issue.id), l)
    /\ is_some(filters.labels_or)
        => \E l \in filters.labels_or.v : SeqContains(get_labels(issue.id), l)
    /\ is_some(filters.updated_before) => ~(issue.updated_at > filters.updated_before.v)
    /\ is_some(filters.updated_after) => ~(issue.updated_at < filters.updated_after.v)

\* the comparators of sort_issues: a orders strictly before b
ListLess(sort, a, b) ==
    CASE sort = Some("priority") -> a.priority < b.priority
      [] sort \in {Some("created_at"), Some("created")} -> a.created_at < b.created_at
      [] sort \in {Some("updated_at"), Some("updated")} -> a.updated_at < b.updated_at
      [] sort = Some("title") -> StrLess(to_lowercase(a.title), to_lowercase(b.title))
      [] OTHER -> \/ a.priority < b.priority
                  \/ a.priority = b.priority /\ a.created_at < b.created_at

\* the stable sorts of sort_issues
RECURSIVE ListInsert(_, _, _)
ListInsert(sort, sorted, x) ==
    IF sorted = <<>> THEN <<x>>
    ELSE IF ListLess(sort, x, sorted[Len(sorted)])
    THEN ListInsert(sort, SubSeq(sorted, 1, Len(sorted) - 1), x) \o <<sorted[Len(sorted)]>>
    ELSE sorted \o <<x>>

RECURSIVE ListSort(_, _)
ListSort(sort, vec) ==
    IF vec = <<>> THEN <<>>
    ELSE ListInsert(sort, ListSort(sort, SubSeq(vec, 1, Len(vec) - 1)), vec[Len(vec)])

\* InMemoryStore::sort_issues
sort_issues(vec, sort, reverse) ==
    LET sorted == ListSort(sort, vec)
    IN  IF reverse THEN [i \in 1..Len(sorted) |-> sorted[Len(sorted) + 1 - i]] ELSE sorted

\* InMemoryStore::list_issues, over the map's values in the given
\* iteration order
list_issues(filters, order) ==
    LET results == SelectSeq([i \in 1..Len(order) |-> issues[order[i]]],
                             LAMBDA issue : matches_list_filters(issue, filters))
        sorted == sort_issues(results, filters.sort, filters.reverse)
    IN  IF is_some(filters.limit) THEN truncate(sorted, filters.limit.v) ELSE sorted

\* InMemoryStore::count_issues
count_issues(filters) ==
    Cardinality({id \in DOMAIN issues : matches_list_filters(issues[id], filters)})

\* ------------------------------------------------------------------------
\* Validation (src/validation/mod.rs)
\* ------------------------------------------------------------------------
\* longest id the validator lets pass
MaxIdLength == 50

\* longest prefix and the hash lengths is_valid_id_format lets pass
MaxPrefixLength == 10

MinValidHashLength == 3

MaxValidHashLength == 8

\* chars().all(|c| c.is_ascii_lowercase() || c.is_ascii_digit())
all_lower_or_digit(s) == \A i \in 1..Len(s) : contains(Base36Alphabet, CharAt(s, i))

\* validation::is_valid_id_format: splitn(2, '-') cuts at the first dash
is_valid_id_format(id) ==
    IF find(id, "-") = 0 THEN FALSE
    ELSE
        LET id_prefix == SubSeq(id, 1, find(id, "-") - 1)
            hash == SubSeq(id, find(id, "-") + 1, Len(id))
        IN  /\ ~(id_prefix = "" \/ Len(id_prefix) > MaxPrefixLength)
            /\ all_lower_or_digit(id_prefix)
            /\ ~(Len(hash) < MinValidHashLength \/ Len(hash) > MaxValidHashLength)
            /\ all_lower_or_digit(hash)

\* IssueValidator::validate: the errors it pushes for the field id
validate_id(id) ==
    (IF trim(id) = "" THEN {"cannot be empty"} ELSE {})
    \cup (IF Len(id) > MaxIdLength THEN {"exceeds 50 characters"} ELSE {})
    \cup (IF id # "" /\ ~is_valid_id_format(id)
          THEN {"invalid format (expected prefix-hash)"} ELSE {})

\* ------------------------------------------------------------------------
\* Inputs of the store specifications
\* ------------------------------------------------------------------------
\* readings of Utc::now(); the store only stores them
Times == {1}

Actors == {"amy"}

IdPool == {"bd-a1", "bd-b2"}

\* the issue the single-issue operations are aimed at
SubjectIds == {"bd-a1"}

LabelPool == {"x"}

JournalPath == "beads.jsonl"

\* an issue as a caller builds it: Issue { id, title, ..Default::default() }
MakeIssue(id, title) == [DefaultIssue(1) EXCEPT !.id = id, !.title = title]

StatusUpdate(st) == [EmptyUpdate EXCEPT !.status = Some(st)]

\* the audit log explored is at most n long
LogWithin(n) == Len(events') <= n

\* the variables the store operations do not touch
diskVars == <<fs, save_st, hist, gen>>

GenIdle == [phase |-> "idle"]

\* a journal written by an earlier run: two open issues, bd-a1 labelled,
\* commented and blocked by bd-b2
SeedIssue(id) == [MakeIssue(id, "t") EXCEPT !.created_by = Some("amy")]

SeedLines ==
    save_lines(<<SeedIssue("bd-a1"), SeedIssue("bd-b2")>>,
               << <<"bd-a1", <<"x">> >> >>,
               <<Dependency("bd-a1", "bd-b2", DepBlocks, 1, Some("amy"), None)>>,
               << <<"bd-a1", <<Comment(1, "bd-a1", "amy", "hi", 1)>> >> >>)

SeedDisk == JournalPath :> SeedLines

\* the store after InMemoryStore::open(JournalPath) on a disk
OpenedFrom(disk) ==
    /\ fs = disk
    /\ \E first_key \in FirstKeys(InsertIssues(EmptyMap, load(disk, JournalPath).issues)) :
            StoreIs(opened(load(disk, JournalPath), JournalPath, first_key))
    /\ ret = Ok("open", "", JournalPath, None)
    /\ save_st = SaveIdle
    /\ hist = <<>>
    /\ gen = GenIdle

\* no call made yet, nothing on disk
Quiet ==
    /\ ret = Ok("new", "", None, None)
    /\ fs = EmptyMap
    /\ save_st = SaveIdle
    /\ hist = <<>>

\* the store after InMemoryStore::new()
Fresh ==
    /\ StoreNew
    /\ Quiet
    /\ gen = GenIdle

\* ------------------------------------------------------------------------
\* Specification of the store: every public mutating operation, on a
\* store opened from an existing journal
\* ------------------------------------------------------------------------
CreateInputs == {MakeIssue("bd-a1", "t"), MakeIssue("bd-a1", " ")}

UpdateInputs ==
    {EmptyUpdate,
     [EmptyUpdate EXCEPT !.title = Some("u")],
     [EmptyUpdate EXCEPT !.title = Some(" ")],
     StatusUpdate(StatusClosed)}

Init == OpenedFrom(SeedDisk)

CreateIssue == \E issue \in CreateInputs, actor \in Actors, now \in Times :
    create_issue(issue, actor, now) /\ LogWithin(MaxEvents) /\ UNCHANGED diskVars

UpdateIssue == \E id \in SubjectIds, update \in UpdateInputs, actor \in Actors, now \in Times :
    update_issue(id, update, actor, now) /\ LogWithin(MaxEvents) /\ UNCHANGED diskVars

DeleteIssue == \E id \in IdPool, actor \in Actors, force \in BOOLEAN, now \in Times :
    delete_issue(id, actor, force, now) /\ LogWithin(MaxEvents) /\ UNCHANGED diskVars

AddDependency == \E a \in IdPool, b \in SubjectIds, actor \in Actors, now \in Times :
    add_dependency(a, b, DepBlocks, actor, None, now) /\ LogWithin(MaxEvents)
        /\ UNCHANGED diskVars

RemoveDependency == \E a \in SubjectIds, b \in IdPool, actor \in Actors, now \in Times :
    remove_dependency(a, b, actor, now) /\ LogWithin(MaxEvents) /\ UNCHANGED diskVars

AddLabel == \E id \in SubjectIds, l \in LabelPool, actor \in Actors, now \in Times :
    add_label(id, l, actor, now) /\ LogWithin(MaxEvents) /\ UNCHANGED diskVars

RemoveLabel == \E id \in SubjectIds, l \in LabelPool, actor \in Actors, now \in Times :
    remove_label(id, l, actor, now) /\ LogWithin(MaxEvents) /\ UNCHANGED diskVars

SetLabels == \E id \in SubjectIds, ls \in {<<>>, <<"x">>} :
    set_labels(id, ls) /\ UNCHANGED diskVars

AddComment == \E id \in SubjectIds, author \in Actors, now \in Times :
    add_comment(id, author, "hi", now) /\ LogWithin(MaxEvents) /\ UNCHANGED diskVars

ClearDirty == clear_dirty /\ UNCHANGED diskVars

Next ==
    \/ CreateIssue
    \/ UpdateIssue
    \/ DeleteIssue
    \/ AddDependency
    \/ RemoveDependency
    \/ AddLabel
    \/ RemoveLabel
    \/ SetLabels
    \/ AddComment
    \/ ClearDirty

vars == <<issues, labels, dependencies, comments, events, dirty_ids,
          next_event_id, next_comment_id, prefix, jsonl_path, ret, fs, save_st,
          hist, gen>>

Spec == Init /\ [][Next]_vars

\* the nine mutating operations
MutatingOps ==
    {"create_issue", "update_issue", "delete_issue", "add_dependency",
     "remove_dependency", "add_label", "remove_label", "set_labels", "add_comment"}

\* the step was a successful call of a mutating operation that changed the
\* issues, labels, edges or comments
ChangedByCall ==
    /\ ret'.op \in MutatingOps
    /\ ret'.err = "ok"
    /\ <<issues, labels, dependencies, comments>>'
            # <<issues, labels, dependencies, comments>>

\* C2: whenever one of the nine mutating operations returns an error, the
\* issue map, label lists, edge vector, comment lists, event log, dirty set
\* and both id counters are what they were before the call.
C2_AllOrNothing ==
    [][ret'.op \in MutatingOps /\ ret'.err # "ok"
        => UNCHANGED <<issues, labels, dependencies, comments, events, dirty_ids,
                       next_event_id, next_comment_id>>]_vars

\* an update rejected for its blank title, on a store that has already
\* been changed by earlier calls
C2_Witness ==
    /\ ret.op = "update_issue"
    /\ ret.err = "Validation"
    /\ Len(events) = MaxEvents
    /\ "bd-a1" \in DOMAIN issues

HashIsCurrent(issue) == issue.content_hash = Some(content_hash(issue))

\* C3: after a successful create_issue or update_issue the stored and the
\* returned issue carry the content hash of their current hashed fields,
\* and an issue whose hash is current keeps a current hash through every
\* later step.
C3_HashCurrent ==
    [][/\ (ret'.op \in {"create_issue", "update_issue"} /\ ret'.err = "ok"
            => /\ ret'.id \in DOMAIN issues'
               /\ HashIsCurrent(issues'[ret'.id])
               /\ HashIsCurrent(ret'.val))
       /\ \A id \in DOMAIN issues \cap DOMAIN issues' :
            HashIsCurrent(issues[id]) => HashIsCurrent(issues'[id])]_vars

\* bd-a1 was retitled, and a label operation followed
C3_Witness ==
    /\ "bd-a1" \in DOMAIN issues
    /\ issues["bd-a1"].title = "u"
    /\ HashIsCurrent(issues["bd-a1"])
    /\ ret.op = "set_labels"
    /\ ret.err = "ok"

\* C4: a successful mutating call that changed the store leaves the id it
\* operated on in the dirty set, and only clear_dirty takes ids out.
C4_DirtyTracked ==
    [][/\ (ChangedByCall => ret'.id \in dirty_ids')
       /\ (ret'.op # "clear_dirty" => dirty_ids \subseteq dirty_ids')]_vars

\* labels of bd-a1 replaced, then bd-b2 deleted: both ids are dirty
C4_Witness ==
    /\ ret.op = "delete_issue"
    /\ ret.id = "bd-b2"
    /\ ret.err = "ok"
    /\ "bd-a1" \in DOMAIN labels
    /\ labels["bd-a1"] = <<>>
    /\ events[1].event_type = "Deleted"
    /\ dirty_ids = {"bd-a1", "bd-b2"}

\* C10: every successful mutating call that changes the issues, labels,
\* edges or comments makes the event log strictly longer.
C10_EveryMutationLogged ==
    [][ChangedByCall => Len(events') > Len(events)]_vars

EventIdsIncrease(log) == \A i \in 1..(Len(log) - 1) : log[i].id < log[i + 1].id

\* C11: every store operation leaves the event log it found as a prefix of
\* the log it leaves (nothing deleted or reordered, delete_issue included),
\* event ids increase strictly along the log, and the events a call appends
\* are events of that call, so successive calls' events lie in call order.
C11_AppendOnly ==
    [][/\ Len(events') >= Len(events)
       /\ SubSeq(events', 1, Len(events)) = events
       /\ EventIdsIncrease(events')
       /\ \A i \in (Len(events) + 1)..Len(events') : events'[i].issue_id = ret'.id]_vars

\* an issue with an event of its own in the log has been deleted
C11_Witness ==
    /\ ret.op = "delete_issue" /\ ret.err = "ok"
    /\ Len(events) = 2
    /\ events[1].issue_id = ret.id /\ events[1].event_type = "Updated"
    /\ events[2].event_type = "Deleted"
    /\ ~contains_key(issues, ret.id)

\* the edges of deps that do not touch id, in vector order
EdgesClearOf(deps, id) ==
    SelectSeq(deps, LAMBDA d : d.issue_id # id /\ d.depends_on_id # id)

\* C21: a successful delete_issue(id) removes, in that one step, the
\* issue, its label list, its comment list and every edge with id as
\* source or target, and appends one Deleted event of id; every other
\* issue, every other issue's labels and comments and every other edge
\* are what they were.
C21_DeleteRemovesAllOfIssue ==
    [][ret'.op = "delete_issue" /\ ret'.err = "ok"
        => /\ ret'.id \in DOMAIN issues
           /\ DOMAIN issues' = DOMAIN issues \ {ret'.id}
           /\ \A other \in DOMAIN issues' : issues'[other] = issues[other]
           /\ DOMAIN labels' = DOMAIN labels \ {ret'.id}
           /\ \A other \in DOMAIN labels' : labels'[other] = labels[other]
           /\ DOMAIN comments' = DOMAIN comments \ {ret'.id}
           /\ \A other \in DOMAIN comments' : comments'[other] = comments[other]
           /\ dependencies' = EdgesClearOf(dependencies, ret'.id)
           /\ Len(events') = Len(events) + 1
           /\ events'[Len(events')].event_type = "Deleted"
           /\ events'[Len(events')].issue_id = ret'.id]_vars

\* the labelled, commented bd-a1 with its edge to bd-b2 has been deleted,
\* and bd-b2 is still stored
C21_Witness ==
    /\ ret.op = "delete_issue" /\ ret.err = "ok" /\ ret.id = "bd-a1"
    /\ events[Len(events)].event_type = "Deleted"
    /\ DOMAIN issues = {"bd-b2"}
    /\ ~contains_key(labels, "bd-a1")
    /\ ~contains_key(comments, "bd-a1")
    /\ dependencies = <<>>

\* ------------------------------------------------------------------------
\* Specification of the dependency graph: issues created without embedded
\* dependencies, then edges added and removed and issues deleted
\* ------------------------------------------------------------------------
GraphIds == {"bd-a1", "bd-b2", "bd-c3"}

\* the edges callers ask for: a ring through the three issues, one edge
\* against the ring, and a self edge
GraphPairs ==
    {<<"bd-a1", "bd-b2">>, <<"bd-b2", "bd-c3">>, <<"bd-c3", "bd-a1">>,
     <<"bd-b2", "bd-a1">>, <<"bd-a1", "bd-a1">>}

\* the edges callers ask to remove and the issues they ask to delete
GraphRemovals == {<<"bd-a1", "bd-b2">>, <<"bd-b2", "bd-c3">>}

GraphDeletions == {"bd-b2", "bd-c3"}

GraphCreate == \E id \in GraphIds, actor \in Actors, now \in Times :
    create_issue(MakeIssue(id, "t"), actor, now) /\ LogWithin(MaxGraphEvents)
        /\ UNCHANGED diskVars

GraphAddDependency == \E pair \in GraphPairs, actor \in Actors, now \in Times :
    add_dependency(pair[1], pair[2], DepBlocks, actor, None, now) /\ LogWithin(MaxGraphEvents)
        /\ UNCHANGED diskVars

GraphRemoveDependency == \E pair \in GraphRemovals, actor \in Actors, now \in Times :
    remove_dependency(pair[1], pair[2], actor, now) /\ LogWithin(MaxGraphEvents)
        /\ UNCHANGED diskVars

GraphDelete == \E id \in GraphDeletions, actor \in Actors, force \in BOOLEAN, now \in Times :
    delete_issue(id, actor, force, now) /\ LogWithin(MaxGraphEvents)
        /\ UNCHANGED diskVars

NextGraph ==
    \/ GraphCreate
    \/ GraphAddDependency
    \/ GraphRemoveDependency
    \/ GraphDelete

SpecGraph == Fresh /\ [][NextGraph]_vars

\* the ids one stored edge away from a set of ids
Successors(deps, S) ==
    {deps[i].depends_on_id : i \in {j \in 1..Len(deps) : deps[j].issue_id \in S}}

RECURSIVE Closure(_, _)
Closure(deps, S) ==
    IF Successors(deps, S) \subseteq S THEN S
    ELSE Closure(deps, S \cup Successors(deps, S))

\* v is reachable from u along one or more stored edges
Reaches(deps, u, v) == v \in Closure(deps, Successors(deps, {u}))

Acyclic(deps) ==
    \A u \in GraphIds, v \in GraphIds : ~(Reaches(deps, u, v) /\ Reaches(deps, v, u))

\* C1: the stored edges never hold a cycle (no two issues reach each other,
\* no issue reaches itself), and add_dependency(s, t) called when s is
\* reachable from t along one or more stored edges fails with
\* DependencyCycle.
C1_NoCycle ==
    [][/\ Acyclic(dependencies')
       /\ \A s \in GraphIds, t \in GraphIds :
            (/\ Reaches(dependencies, t, s)
             /\ ret'.op = "add_dependency"
             /\ ret'.id = s
             /\ ret'.arg.depends_on_id = t)
            => ret'.err = "DependencyCycle"]_vars

\* an edge refused because it would close a cycle through two stored edges
C1_Witness ==
    /\ ret.op = "add_dependency"
    /\ ret.err = "DependencyCycle"
    /\ Len(dependencies) = 2
    /\ ~dependency_exists(ret.arg.depends_on_id, ret.id)
    /\ Reaches(dependencies, ret.arg.depends_on_id, ret.id)

\* ------------------------------------------------------------------------
\* Specification of the status life cycle of one issue
\* ------------------------------------------------------------------------
LifeCreateInputs ==
    {MakeIssue("bd-a1", "t"), [MakeIssue("bd-a1", "t") EXCEPT !.status = StatusClosed]}

LifeUpdateInputs ==
    {StatusUpdate(StatusClosed), StatusUpdate(StatusTombstone), StatusUpdate(StatusOpen),
     StatusUpdate(StatusInProgress), [EmptyUpdate EXCEPT !.closed_at = Some(None)],
     EmptyUpdate,
     [EmptyUpdate EXCEPT !.priority = Some(1), !.assignee = Some(Some("amy"))],
     [EmptyUpdate EXCEPT !.status = Some(StatusClosed), !.priority = Some(1),
                         !.assignee = Some(Some("amy"))],
     [EmptyUpdate EXCEPT !.status = Some(StatusOpen), !.assignee = Some(None)]}

LifeCreate == \E issue \in LifeCreateInputs, actor \in Actors, now \in Times :
    create_issue(issue, actor, now) /\ LogWithin(MaxLifeEvents) /\ UNCHANGED diskVars

LifeUpdate == \E id \in SubjectIds, update \in LifeUpdateInputs, actor \in Actors, now \in Times :
    update_issue(id, update, actor, now) /\ LogWithin(MaxLifeEvents)
        /\ UNCHANGED diskVars

NextLife ==
    \/ LifeCreate
    \/ LifeUpdate

SpecLife == Fresh /\ [][NextLife]_vars

\* C5: a successful update_issue(id, {status: s}) with s closed or
\* tombstone leaves closed_at set, and a successful
\* update_issue(id, {status: open}), after such an update or at any other
\* time, leaves closed_at unset.
C5_ClosedAtFollowsStatus ==
    [][ret'.op = "update_issue" /\ ret'.err = "ok"
        => /\ ret'.arg \in {StatusUpdate(StatusClosed), StatusUpdate(StatusTombstone)}
                => is_some(issues'[ret'.id].closed_at)
           /\ ret'.arg = StatusUpdate(StatusOpen)
                => is_none(issues'[ret'.id].closed_at)]_vars

\* bd-a1 was closed by an update and the last call reopened it
C5_Witness ==
    /\ ret.op = "update_issue"
    /\ ret.err = "ok"
    /\ ret.arg = StatusUpdate(StatusOpen)
    /\ \E i \in 1..Len(events) : events[i].event_type = "Closed"
    /\ events[Len(events) - 1].event_type = "Reopened"
    /\ is_none(issues["bd-a1"].closed_at)

\* C12: every stored issue has closed_at set exactly when its status is
\* closed or tombstone.
C12_ClosedAtMatchesStatus ==
    \A id \in DOMAIN issues :
        is_terminal(issues[id].status) <=> is_some(issues[id].closed_at)

\* the types of the events the step appends
AppendedTypes == {events'[i].event_type : i \in (Len(events) + 1)..Len(events')}

\* C13: a successful update_issue that takes an issue from a non-terminal
\* status to closed or tombstone appends a Closed event, and one that takes
\* it from closed or tombstone to a non-terminal status appends a Reopened
\* event.
C13_TransitionsLogged ==
    [][ret'.op = "update_issue" /\ ret'.err = "ok"
        => LET old == issues[ret'.id].status
               new == issues'[ret'.id].status
           IN  /\ ~is_terminal(old) /\ is_terminal(new) => "Closed" \in AppendedTypes
               /\ is_terminal(old) /\ ~is_terminal(new) => "Reopened" \in AppendedTypes]_vars

\* type, old value and new value of each event of a log
Shape(log) == [i \in 1..Len(log) |-> <<log[i].event_type, log[i].old_value, log[i].new_value>>]

\* the events of the step, in the order appended
Appended == SubSeq(events', Len(events) + 1, Len(events'))

\* the events C28 names for a patch applied to an issue, in its order
PatchEvents(issue, update) ==
    (IF update.status.some
     THEN << <<"StatusChanged", Some(Status_as_str(issue.status)),
               Some(Status_as_str(update.status.v))>> >>
          \o (IF is_terminal(update.status.v) /\ is_none(issue.closed_at)
              THEN << <<"Closed", None, None>> >>
              ELSE IF ~is_terminal(update.status.v) /\ is_some(issue.closed_at)
              THEN << <<"Reopened", None, None>> >>
              ELSE <<>>)
     ELSE <<>>)
    \o (IF update.priority.some
        THEN << <<"PriorityChanged", Some(Priority_to_string(issue.priority)),
                  Some(Priority_to_string(update.priority.v))>> >>
        ELSE <<>>)
    \o (IF update.assignee.some
        THEN << <<"AssigneeChanged", issue.assignee, update.assignee.v>> >>
        ELSE <<>>)
    \o << <<"Updated", None, None>> >>

\* the log of create and close, and of create, close and reopen
ClosedLog ==
    << <<"Created", None, None>>, <<"StatusChanged", Some("open"), Some("closed")>>,
       <<"Closed", None, None>>, <<"Updated", None, None>> >>

ReopenedLog ==
    ClosedLog \o << <<"StatusChanged", Some("closed"), Some("open")>>,
                    <<"Reopened", None, None>>, <<"Updated", None, None>> >>

\* C28: each successful update_issue appends, for its issue, StatusChanged
\* (old, new) when the patch has a status, then Closed or Reopened when the
\* status change sets or clears closed_at, then PriorityChanged, then
\* AssigneeChanged, and last exactly one Updated, also for an empty patch;
\* so create (open, closed_at unset), close and reopen of one issue give
\* the log [Created,
\* StatusChanged(open->closed), Closed, Updated, StatusChanged(closed->open),
\* Reopened, Updated].
C28_UpdateEventOrder ==
    [][ret'.op = "update_issue" /\ ret'.err = "ok"
        => /\ Shape(Appended) = PatchEvents(issues[ret'.id], ret'.arg)
           /\ \A i \in 1..Len(Appended) : Appended[i].issue_id = ret'.id
           /\ (/\ ret.op = "create_issue" /\ ret.err = "ok"
               /\ Len(events) = 1
               /\ issues[ret'.id].status = StatusOpen
               /\ is_none(issues[ret'.id].closed_at)
               /\ ret'.arg = StatusUpdate(StatusClosed))
                => Shape(events') = ClosedLog
           /\ (Shape(events) = ClosedLog /\ ret'.arg = StatusUpdate(StatusOpen))
                => Shape(events') = ReopenedLog]_vars

\* bd-a1 was created, closed and reopened
C28_Witness ==
    /\ ret.op = "update_issue"
    /\ ret.err = "ok"
    /\ ret.arg = StatusUpdate(StatusOpen)
    /\ Shape(events) = ReopenedLog
    /\ \A i \in 1..Len(events) : events[i].issue_id = "bd-a1" /\ events[i].id = i

\* ------------------------------------------------------------------------
\* Specification of the id generators: one call of generate_id (util.rs)
\* or IdGenerator::generate (id.rs) on inputs drawn at the start
\* ------------------------------------------------------------------------
GenTitles == {"t", "u"}

GenCreators == {None, Some("amy")}

GenIssueCounts == {0, 200, 1000, 2000000}

\* every candidate the probing loops can ask about, at any length
ProbeCandidates(pfx, title, description, creator, created_at) ==
    {GenCandidate(pfx, title, description, creator, created_at, nonce, length) :
        nonce \in 0..(NoncesPerLength - 1), length \in 3..MaxHashLength}

\* the existence predicates a caller supplies: nothing exists, the first
\* candidate exists, every probed candidate exists, every probed candidate
\* and the first twelve-character candidate exist, everything exists, the
\* candidates of nonces 0..4 at one length exist, the candidates of every
\* nonce at length 3 exist
GenPredicates(pfx, title, description, creator, created_at) ==
    LET probes == ProbeCandidates(pfx, title, description, creator, created_at)
    IN  {PredSet({GenCandidate(pfx, title, description, creator, created_at, nonce, length) :
                    nonce \in 0..4}) : length \in 3..MaxHashLength}
        \cup
        {PredSet({GenCandidate(pfx, title, description, creator, created_at, nonce, 3) :
                    nonce \in 0..(NoncesPerLength - 1)})}
        \cup
        {PredSet({}),
         PredSet({GenCandidate(pfx, title, description, creator, created_at, 0, 3)}),
         PredSet(probes),
         PredSet(probes \cup {GenCandidate(pfx, title, description, creator,
                                           created_at, 0, FallbackHashLength)}),
         PredAll}

InitGen ==
    /\ StoreNew
    /\ Quiet
    /\ \E title \in GenTitles, creator \in GenCreators, issue_count \in GenIssueCounts :
        \E pred \in GenPredicates("bd", title, None, creator, 1) :
            gen = [phase |-> "input", prefix |-> "bd", title |-> title,
                   description |-> None, creator |-> creator, created_at |-> 1,
                   issue_count |-> issue_count, pred |-> pred, fn |-> "", result |-> ""]

GenerateId ==
    /\ gen.phase = "input"
    /\ gen' = [gen EXCEPT
                 !.phase = "done", !.fn = "generate_id",
                 !.result = generate_id(gen.prefix, gen.title, gen.description,
                                        gen.creator, gen.created_at, gen.issue_count,
                                        gen.pred)]
    /\ UNCHANGED <<storeVars, ret, fs, save_st, hist>>

IdGeneratorGenerate ==
    /\ gen.phase = "input"
    /\ gen' = [gen EXCEPT
                 !.phase = "done", !.fn = "IdGenerator::generate",
                 !.result = IdGenerator_generate(gen.prefix, gen.title, gen.description,
                                                 gen.creator, gen.created_at,
                                                 gen.issue_count, gen.pred)]
    /\ UNCHANGED <<storeVars, ret, fs, save_st, hist>>

NextGen ==
    \/ GenerateId
    \/ IdGeneratorGenerate

SpecGen == InitGen /\ [][NextGen]_vars

\* C6: the id a generator returns is one for which the caller's existence
\* predicate is false.
C6_ReturnedIdIsFree == gen.phase = "done" => ~Exists(gen.pred, gen.result)

\* the initial hash length of the call
GenInitialLength == optimal_hash_length(gen.issue_count)

\* the number of candidates at lengths from the initial one up to 8
GenProbeCount == NoncesPerLength * (MaxHashLength + 1 - GenInitialLength)

\* the k-th candidate (k from 0) in the order nonces 0..9 at the initial
\* length, then nonces 0..9 at the next length, and so on
GenProbe(k) ==
    GenCandidate(gen.prefix, gen.title, gen.description, gen.creator, gen.created_at,
                 k % NoncesPerLength, GenInitialLength + (k \div NoncesPerLength))

\* the hash of an id "bd-hash"
HashOf(id) == SubSeq(id, Len(gen.prefix) + 2, Len(id))

\* C31: generate_id returns the first candidate, in the order nonces 0..9
\* at the initial length L, then nonces 0..9 at L+1, and so on up to length
\* 8, for which the predicate is false; when the predicate is true for the
\* first five candidates and false for the sixth, the sixth (nonce 5, length
\* L) is returned, and when it is true for the ten nonces at length 3 and
\* false for nonce 0 at length 4 the returned id has hash length 4.
C31_FirstFreeProbe ==
    (gen.phase = "done" /\ gen.fn = "generate_id")
        => /\ \A k \in 0..(GenProbeCount - 1) :
                (/\ ~Exists(gen.pred, GenProbe(k))
                 /\ \A j \in 0..(k - 1) : Exists(gen.pred, GenProbe(j)))
                    => gen.result = GenProbe(k)
           /\ (/\ \A j \in 0..4 : Exists(gen.pred, GenProbe(j))
               /\ ~Exists(gen.pred, GenProbe(5)))
                => /\ gen.result = GenProbe(5)
                   /\ Len(HashOf(gen.result)) = GenInitialLength
           /\ (/\ GenInitialLength = 3
               /\ \A j \in 0..9 : Exists(gen.pred, GenProbe(j))
               /\ ~Exists(gen.pred, GenProbe(10)))
                => Len(HashOf(gen.result)) = 4

\* generate_id returned the candidate of nonce 5 at the initial length 4
\* after the predicate held of the five candidates before it
C31_Witness ==
    /\ gen.phase = "done"
    /\ gen.fn = "generate_id"
    /\ GenInitialLength = 4
    /\ gen.pred = PredSet({GenProbe(j) : j \in 0..4})
    /\ Cardinality({GenProbe(j) : j \in 0..5}) = 6
    /\ gen.result = GenProbe(5)

\* C36: every id generate_id returns is the prefix, a dash and a hash of
\* lowercase base36 characters whose length is at least the initial length
\* chosen from the issue count (itself in 3..8) and at most 12, for every
\* existence predicate.
C36_GeneratedIdShape ==
    (gen.phase = "done" /\ gen.fn = "generate_id")
        => /\ starts_with(gen.result, gen.prefix \o "-")
           /\ \A i \in 1..Len(HashOf(gen.result)) :
                contains(Base36Alphabet, CharAt(HashOf(gen.result), i))
           /\ GenInitialLength \in 3..MaxHashLength
           /\ Len(HashOf(gen.result)) >= GenInitialLength
           /\ Len(HashOf(gen.result)) <= FallbackHashLength

\* ------------------------------------------------------------------------
\* Specification of id resolution: issues created under caller-chosen ids
\* and deleted, and resolve_id called on partial and full ids
\* ------------------------------------------------------------------------
ResolveIds == {"bd-a1", "bd-A1", "bd-a12", "bd-b.2"}

ResolveInputs ==
    {"a1", "A1", "1", "12", "2", "b", "bd-a1", "bd-A1", " bd-a12 ", "x-2", "zz", "", "  ",
     "bd-"}

ResolveCreate == \E id \in ResolveIds, actor \in Actors, now \in Times :
    create_issue(MakeIssue(id, "t"), actor, now) /\ LogWithin(MaxResolveEvents)
        /\ UNCHANGED diskVars

ResolveDelete == \E id \in ResolveIds, actor \in Actors, now \in Times :
    delete_issue(id, actor, TRUE, now) /\ LogWithin(MaxResolveEvents)
        /\ UNCHANGED diskVars

ResolveId == \E input \in ResolveInputs :
    /\ ret' = resolve_id(input)
    /\ UNCHANGED <<storeVars, diskVars>>

NextResolve ==
    \/ ResolveCreate
    \/ ResolveDelete
    \/ ResolveId

SpecResolve == Fresh /\ [][NextResolve]_vars

\* C7: in every store state, an input that resolve_id resolves to an id y
\* is such that resolve_id(y) succeeds and returns y.
C7_ResolveConfluent ==
    \A input \in ResolveInputs :
        resolve_id(input).err = "ok"
            => /\ resolve_id(resolve_id(input).val).err = "ok"
               /\ resolve_id(resolve_id(input).val).val = resolve_id(input).val

\* the input as resolve_id looks it up
Lowered(input_raw) == to_lowercase(trim(input_raw))

\* the tail of an input after its last dash, the whole input without one
InputTail(input) ==
    IF rfind(input, "-") > 0 THEN SubSeq(input, rfind(input, "-") + 1, Len(input))
    ELSE input

\* the stored ids whose root hash has the tail as a substring
RootMatches(tail) ==
    {id \in DOMAIN issues : rfind(id, "-") > 0 /\ contains(hash_base(id), tail)}

\* the exact hit or, for an input without a dash, the hit of prefix-input
EarlyHit(input) ==
    IF input \in DOMAIN issues THEN Some(input)
    ELSE IF ~contains(input, "-") /\ (prefix \o "-" \o input) \in DOMAIN issues
    THEN Some(prefix \o "-" \o input)
    ELSE None

\* the outcome C30 gives: the early hit, else by the number of substring
\* matches
ResolvedInOrder(input_raw) ==
    LET input == Lowered(input_raw)
        m == RootMatches(InputTail(input))
    IN  IF EarlyHit(input).some THEN [err |-> "ok", val |-> EarlyHit(input).v]
        ELSE IF m = {} THEN [err |-> "IssueNotFound", val |-> None]
        ELSE IF Cardinality(m) = 1 THEN [err |-> "ok", val |-> CHOOSE id \in m : TRUE]
        ELSE [err |-> "AmbiguousId", val |-> Some(m)]

\* resolve_id(input_raw) has the outcome C30 gives, and a successful one is
\* a stored id
ResolvesInOrder(input_raw) ==
    /\ resolve_id(input_raw).err = ResolvedInOrder(input_raw).err
    /\ resolve_id(input_raw).val = ResolvedInOrder(input_raw).val
    /\ resolve_id(input_raw).err = "ok" => resolve_id(input_raw).val \in DOMAIN issues

JournalCreateInputs ==
    {[MakeIssue("bd-b2", "t") EXCEPT
        !.status = StatusCustom("review"),
        !.labels = <<"x", "y">>,
        !.dependencies = <<Dependency("bd-b2", "bd-a1", DepRelated, 1, Some("amy"),
                                      Some("m"))>>,
        !.comments = <<Comment(1, "bd-b2", "amy", "hi", 1)>>],
     [MakeIssue("bd-a1", "t") EXCEPT
        !.status = StatusClosed, !.closed_at = Some(2), !.description = Some("d"),
        !.pinned = TRUE, !.compaction_level = Some(1)],
     MakeIssue("bd-a1", "t")}

Filling == hist = <<>> /\ save_st.pc = "idle"

JournalCreate == \E issue \in JournalCreateInputs, actor \in Actors, now \in Times :
    /\ Filling
    /\ create_issue(issue, actor, now)
    /\ LogWithin(MaxJournalEvents)
    /\ UNCHANGED diskVars

JournalSetLabels == \E id \in IdPool, ls \in {<<>>, <<"z">>} :
    /\ Filling
    /\ set_labels(id, ls)
    /\ UNCHANGED diskVars

JournalAddDependency == \E a \in IdPool, b \in IdPool, actor \in Actors, now \in Times :
    /\ Filling
    /\ add_dependency(a, b, DepBlocks, actor, None, now)
    /\ LogWithin(MaxJournalEvents)
    /\ UNCHANGED diskVars

\* store.save_to(JournalPath) begins
JournalSaveBegin ==
    /\ Len(hist) \in {0, 2, 4}
    /\ \E issue_order \in KeyOrders(DOMAIN issues),
          label_order \in KeyOrders(DOMAIN labels),
          comment_order \in KeyOrders(DOMAIN comments) :
            save_begin(JournalPath, issue_order, label_order, comment_order)
    /\ UNCHANGED <<storeVars, ret, hist, gen>>

JournalSaveWrite == save_write /\ UNCHANGED <<storeVars, ret, hist, gen>>

JournalSaveFlush == save_flush /\ UNCHANGED <<storeVars, ret, hist, gen>>

JournalSaveRename ==
    /\ save_rename
    /\ hist' = Append(hist, [kind |-> "save", data |-> fs'[save_st.path]])
    /\ UNCHANGED <<storeVars, ret, gen>>

\* InMemoryStore::open(JournalPath) after a completed save
JournalOpen ==
    /\ save_st.pc = "done"
    /\ Len(hist) \in {1, 3}
    /\ open(JournalPath)
    /\ save_st' = SaveIdle
    /\ UNCHANGED <<fs, gen>>

\* the third save has returned
JournalEnd ==
    /\ save_st.pc = "done"
    /\ Len(hist) = 5
    /\ save_st' = SaveIdle
    /\ ret' = Ok("save_to", "", JournalPath, None)
    /\ UNCHANGED <<storeVars, fs, hist, gen>>

NextJournal ==
    \/ JournalCreate
    \/ JournalSetLabels
    \/ JournalAddDependency
    \/ JournalSaveBegin
    \/ JournalSaveWrite
    \/ JournalSaveFlush
    \/ JournalSaveRename
    \/ JournalOpen
    \/ JournalEnd

SpecJournal == Fresh /\ [][NextJournal]_vars

\* C8: in save(x); y = load(); save(y); z = load(); save(z), y and z hold
\* the same issues, labels per issue, edges and comments per issue, and
\* save(y) and save(z) write the same bytes.
C8_RoundTrip ==
    /\ Len(hist) >= 4 => hist[2].data = hist[4].data
    /\ Len(hist) >= 5 => hist[3].data = hist[5].data

\* the round trip is complete on a store of two issues that has labels,
\* an edge and a comment
C8_Witness ==
    /\ Len(hist) = 5
    /\ Cardinality(DOMAIN issues) = 2
    /\ DOMAIN labels # {}
    /\ dependencies # <<>>
    /\ DOMAIN comments # {}
    /\ Len(hist[5].data) = 2

\* ------------------------------------------------------------------------
\* Specification of one save at a time on a store opened from a journal,
\* with I/O errors, a process kill, and a reader of the destination
\* ------------------------------------------------------------------------
\* changes made between saves, so that the new content differs from the
\* prior content
SaveSetLabels == \E ls \in {<<>>, <<"y">>} :
    /\ save_st.pc = "idle"
    /\ set_labels("bd-a1", ls)
    /\ UNCHANGED diskVars

SaveDelete == \E actor \in Actors, now \in Times :
    /\ save_st.pc = "idle"
    /\ delete_issue("bd-b2", actor, TRUE, now)
    /\ UNCHANGED diskVars

SaveBegin ==
    /\ \E issue_order \in KeyOrders(DOMAIN issues),
          label_order \in KeyOrders(DOMAIN labels),
          comment_order \in KeyOrders(DOMAIN comments) :
            save_begin(JournalPath, issue_order, label_order, comment_order)
    /\ UNCHANGED <<storeVars, ret, hist, gen>>

SaveWrite == save_write /\ UNCHANGED <<storeVars, ret, hist, gen>>

SaveFlush == save_flush /\ UNCHANGED <<storeVars, ret, hist, gen>>

SaveRename == save_rename /\ UNCHANGED <<storeVars, ret, hist, gen>>

SaveIoError == save_io_error /\ UNCHANGED <<storeVars, ret, hist, gen>>

SaveCrash == save_crash /\ UNCHANGED <<storeVars, ret, hist, gen>>

\* a save_to that clears the dirty set once the journal is written
SaveReturnClearing ==
    /\ save_st.pc \in {"done", "failed"}
    /\ ret' = IF save_st.pc = "done" THEN Ok("save_to", "", JournalPath, None)
              ELSE Err("save_to", "", JournalPath, "Io")
    /\ save_st' = SaveIdle
    /\ dirty_ids' = IF save_st.pc = "done" THEN {} ELSE dirty_ids
    /\ UNCHANGED <<issues, labels, dependencies, comments, events, next_event_id,
                   next_comment_id, prefix, jsonl_path, fs, hist, gen>>

\* save_to returns Ok(()) or Err(Io) to its caller
SaveReturn ==
    /\ save_st.pc \in {"done", "failed"}
    /\ ret' = IF save_st.pc = "done" THEN Ok("save_to", "", JournalPath, None)
              ELSE Err("save_to", "", JournalPath, "Io")
    /\ save_st' = SaveIdle
    /\ UNCHANGED <<storeVars, fs, hist, gen>>

\* the caller clears the dirty set between saves
SaveClearDirty ==
    /\ save_st.pc = "idle"
    /\ clear_dirty
    /\ UNCHANGED diskVars

\* another process loads the destination
ReaderLoad ==
    /\ ret' = Ok("load", "", JournalPath, Some(load(fs, JournalPath)))
    /\ UNCHANGED <<storeVars, diskVars>>

NextSave ==
    \/ SaveSetLabels
    \/ SaveDelete
    \/ SaveBegin
    \/ SaveWrite
    \/ SaveFlush
    \/ SaveRename
    \/ SaveIoError
    \/ SaveCrash
    \/ SaveReturn
    \/ SaveClearDirty
    \/ ReaderLoad

SpecSave == OpenedFrom(SeedDisk) /\ [][NextSave]_vars

\* C9: from the moment a save begins, the destination holds the complete
\* prior content or the complete new content; until the rename, and so
\* after an error or a kill before it, the destination holds the prior
\* content; and the save adds no path other than its .tmp sibling.
C9_AtomicWrite ==
    save_st.pc # "idle"
        => /\ FileAt(fs, save_st.path) \in {save_st.prior, Some(save_st.lines)}
           /\ save_st.pc \in {"writing", "flushed", "failed", "crashed"}
                => FileAt(fs, save_st.path) = save_st.prior
           /\ save_st.pc = "done" => FileAt(fs, save_st.path) = Some(save_st.lines)
           /\ DOMAIN fs \subseteq
                save_st.siblings \cup {save_st.path, with_extension(save_st.path, "jsonl.tmp")}

\* the process was killed with the temp file complete and not yet renamed:
\* the destination holds the prior content, which differs from the new
C9_Witness ==
    /\ save_st.pc = "crashed"
    /\ save_st.written = Len(save_st.lines)
    /\ fs[with_extension(JournalPath, "jsonl.tmp")] = save_st.lines
    /\ fs[JournalPath] = SeedLines
    /\ save_st.lines # SeedLines

\* C23: save and save_to leave the in-memory store as it was: every step
\* of a save, whether the save ends well or in an error, keeps the dirty
\* set, the issues, labels, edges, comments, events, counters and stored
\* path; ids leave the dirty set in a clear_dirty step only.
C23_SaveKeepsStore ==
    [][/\ (save_st' # save_st \/ ret'.op = "save_to") => UNCHANGED storeVars
       /\ ~(dirty_ids \subseteq dirty_ids') => ret'.op = "clear_dirty"]_vars

\* a save has returned Ok, the journal holds the new content, and the ids
\* changed before the save are still dirty
C23_Witness ==
    /\ ret.op = "save_to" /\ ret.err = "ok"
    /\ save_st = SaveIdle
    /\ fs[JournalPath] # SeedLines
    /\ dirty_ids = {"bd-a1", "bd-b2"}
    /\ jsonl_path = Some(JournalPath)

\* ------------------------------------------------------------------------
\* Specification of issues created with embedded relations: create_issue
\* is given issues that carry labels, dependencies and comments, and the
\* store's other mutating operations follow
\* ------------------------------------------------------------------------
EmbedCreateInputs ==
    {[MakeIssue("bd-a1", "t") EXCEPT
        !.labels = <<"x", "x">>,
        !.dependencies = <<Dependency("bd-a1", "bd-b2", DepBlocks, 1, Some("amy"), None)>>,
        !.comments = <<Comment(1, "bd-a1", "amy", "hi", 1)>>],
     [MakeIssue("bd-b2", "t") EXCEPT
        !.dependencies = <<Dependency("bd-b2", "bd-a1", DepRelated, 1, Some("amy"), None),
                           Dependency("bd-b2", "bd-a1", DepBlocks, 1, Some("amy"), None)>>],
     [MakeIssue("bd-a1", "t") EXCEPT
        !.dependencies = <<Dependency("bd-a1", "bd-a1", DepBlocks, 1, Some("amy"), None)>>],
     MakeIssue("bd-b2", "t")}

EmbedCreate == \E issue \in EmbedCreateInputs, actor \in Actors, now \in Times :
    create_issue(issue, actor, now) /\ LogWithin(MaxEvents) /\ UNCHANGED diskVars

NextEmbed ==
    \/ EmbedCreate
    \/ DeleteIssue
    \/ AddDependency
    \/ RemoveDependency
    \/ AddLabel
    \/ RemoveLabel
    \/ SetLabels
    \/ AddComment

SpecEmbed == Fresh /\ [][NextEmbed]_vars

\* C14: in every reachable store state the stored edges hold no cycle,
\* whatever their types and whichever operation put them there.
C14_NoCycleAnyOperation == Acyclic(dependencies)

\* C15: every stored edge has a source different from its target, and both
\* are issues present in the store.
C15_EdgesJoinStoredIssues ==
    \A i \in 1..Len(dependencies) :
        /\ dependencies[i].issue_id # dependencies[i].depends_on_id
        /\ contains_key(issues, dependencies[i].issue_id)
        /\ contains_key(issues, dependencies[i].depends_on_id)

\* C16: no two stored edges have the same source and the same target,
\* whatever their types.
C16_OneEdgePerPair ==
    \A i \in 1..Len(dependencies), j \in 1..Len(dependencies) :
        (/\ dependencies[i].issue_id = dependencies[j].issue_id
         /\ dependencies[i].depends_on_id = dependencies[j].depends_on_id)
        => i = j

\* C17: no label list holds a label twice, and add_label of a label already
\* in the list changes neither the list nor the event log.
C17_LabelsAreSets ==
    [][/\ \A id \in DOMAIN labels' :
            \A i \in 1..Len(labels'[id]), j \in 1..Len(labels'[id]) :
                labels'[id][i] = labels'[id][j] => i = j
       /\ (/\ ret'.op = "add_label" /\ ret'.err = "ok"
           /\ contains_key(labels, ret'.id)
           /\ SeqContains(labels[ret'.id], ret'.arg))
          => UNCHANGED <<labels, events>>]_vars

\* the ids of the comments stored under any issue
CommentIds(m) == UNION {{m[id][i].id : i \in 1..Len(m[id])} : id \in DOMAIN m}

CommentIdsUnique(m) ==
    \A a \in DOMAIN m, b \in DOMAIN m :
        \A i \in 1..Len(m[a]), j \in 1..Len(m[b]) :
            m[a][i].id = m[b][j].id => a = b /\ i = j

\* C18: no two stored comments share an id, and the id add_comment returns
\* is greater than the id of every comment the store held before the call.
C18_CommentIdsFresh ==
    [][/\ CommentIdsUnique(comments')
       /\ ret'.op = "add_comment" /\ ret'.err = "ok"
          => \A c \in CommentIds(comments) : ret'.val.id > c]_vars


\* ------------------------------------------------------------------------
\* Specification of caller-chosen field values: issues are created and
\* updated with priorities the type Priority(pub i32) lets a caller build
\* ------------------------------------------------------------------------
\* Priority::CRITICAL, Priority::BACKLOG, and two values outside them
FieldPriorities == {0, 4, 5, -1}

FieldCreate == \E id \in IdPool, priority \in FieldPriorities, actor \in Actors, now \in Times :
    create_issue([MakeIssue(id, "t") EXCEPT !.priority = priority], actor, now)
        /\ LogWithin(MaxFieldEvents) /\ UNCHANGED diskVars

FieldUpdate == \E id \in IdPool, priority \in FieldPriorities, actor \in Actors, now \in Times :
    update_issue(id, [EmptyUpdate EXCEPT !.priority = Some(priority)], actor, now)
        /\ LogWithin(MaxFieldEvents) /\ UNCHANGED diskVars

NextFields ==
    \/ FieldCreate
    \/ FieldUpdate

SpecFields == Fresh /\ [][NextFields]_vars

\* C19: every stored issue has a priority from 0 to 4.
C19_PriorityInRange == \A id \in DOMAIN issues : issues[id].priority \in 0..4


\* ------------------------------------------------------------------------
\* Specification of a crowded store: the store already holds, under
\* caller-chosen ids, every id that generate_id can propose for one title
\* ------------------------------------------------------------------------
\* the ids generate_id proposes for title "u" created by "amy" at time 1 in
\* a store of this size, in the order it proposes them: ten nonces at each
\* of the lengths 5 to 8, nonces 0 to 1000 at length 12, and the id it
\* falls back to
CrowdProbes == NoncesPerLength * (MaxHashLength - 4)

CrowdSize == CrowdProbes + FallbackMaxNonce + 2

CrowdId(k) ==
    IF k <= CrowdProbes
    THEN GenCandidate("bd", "u", None, Some("amy"), 1, (k - 1) % NoncesPerLength,
                      5 + ((k - 1) \div NoncesPerLength))
    ELSE IF k < CrowdSize
    THEN GenCandidate("bd", "u", None, Some("amy"), 1, k - CrowdProbes - 1,
                      FallbackHashLength)
    ELSE GenCandidate("bd", "u", None, Some("amy"), 1, FallbackMaxNonce,
                      FallbackHashLength) \o ToString(FallbackMaxNonce + 1)

CrowdIds == {CrowdId(k) : k \in 1..CrowdSize}

\* the issue create_issue(MakeIssue(id, "x"), "eve") stores at time 1
CrowdIssue(id) ==
    LET stamped == [MakeIssue(id, "x") EXCEPT !.created_by = Some("eve")]
    IN  [stamped EXCEPT !.content_hash = Some(compute_content_hash(stamped))]

\* the store after create_issue(MakeIssue(CrowdId(k), "x"), "eve") for
\* k = 1, 2, ... on a new store
Crowded ==
    /\ issues = [id \in CrowdIds |-> CrowdIssue(id)]
    /\ labels = EmptyMap
    /\ dependencies = <<>>
    /\ comments = EmptyMap
    /\ events = [k \in 1..CrowdSize |->
                    Event(k, CrowdId(k), "Created", "eve", None, None, 1)]
    /\ dirty_ids = CrowdIds
    /\ next_event_id = CrowdSize + 1
    /\ next_comment_id = 1
    /\ prefix = "bd"
    /\ jsonl_path = None
    /\ ret = Ok("create_issue", CrowdId(CrowdSize), MakeIssue(CrowdId(CrowdSize), "x"),
                CrowdIssue(CrowdId(CrowdSize)))
    /\ fs = EmptyMap
    /\ save_st = SaveIdle
    /\ hist = <<>>
    /\ gen = GenIdle

\* create_issue asked to generate the id, for the crowded title and for
\* another one, and asked to use an id the store holds
CrowdCreateInputs == {MakeIssue("", "u"), MakeIssue("", "t"), MakeIssue(CrowdId(1), "t")}

CrowdCreate == \E issue \in CrowdCreateInputs, actor \in Actors, now \in Times :
    create_issue(issue, actor, now) /\ LogWithin(CrowdSize + MaxCrowdEvents)
        /\ UNCHANGED diskVars

CrowdDelete == \E k \in {1, CrowdProbes + 1}, actor \in Actors, now \in Times :
    delete_issue(CrowdId(k), actor, TRUE, now) /\ LogWithin(CrowdSize + MaxCrowdEvents)
        /\ UNCHANGED diskVars

NextCrowd ==
    \/ CrowdCreate
    \/ CrowdDelete

SpecCrowd == Crowded /\ [][NextCrowd]_vars

\* C20: create_issue given a non-empty id the store holds (and a title
\* that passes validation) fails with IdCollision; a successful
\* create_issue, whether the id was given or generated, stores the issue
\* under an id the store did not hold, adds that id and no other, and
\* leaves every issue stored before as it was.
C20_CreateNeverOverwrites ==
    [][ret'.op = "create_issue"
        => /\ (/\ ret'.arg.id # ""
               /\ contains_key(issues, ret'.arg.id)
               /\ trim(ret'.arg.title) # "")
              => ret'.err = "IdCollision"
           /\ ret'.err = "ok"
              => /\ ~contains_key(issues, ret'.id)
                 /\ DOMAIN issues' = (DOMAIN issues) \cup {ret'.id}
                 /\ \A id \in DOMAIN issues : issues'[id] = issues[id]]_vars

\* ------------------------------------------------------------------------
\* Specification of the work queries: a store opened from a journal of
\* three issues, whose statuses and typed edges then change
\* ------------------------------------------------------------------------
\* bd-c3 is a template in every journal; the first journal has no edges,
\* in the second bd-a1 is blocked by bd-b2, and the third holds a ring
\* bd-a1 -> bd-b2 -> bd-a1 that bd-c3 leads into
WorkIssues ==
    <<SeedIssue("bd-a1"), SeedIssue("bd-b2"),
      [SeedIssue("bd-c3") EXCEPT !.is_template = TRUE]>>

WorkRing ==
    <<Dependency("bd-a1", "bd-b2", DepRelated, 1, Some("amy"), None),
      Dependency("bd-b2", "bd-a1", DepDiscoveredFrom, 1, Some("amy"), None),
      Dependency("bd-c3", "bd-a1", DepRelated, 1, Some("amy"), None)>>

WorkBlocked == <<Dependency("bd-a1", "bd-b2", DepBlocks, 1, Some("amy"), None)>>

WorkDisks ==
    {JournalPath :> save_lines(WorkIssues, <<>>, <<>>, <<>>),
     JournalPath :> save_lines(WorkIssues, <<>>, WorkBlocked, <<>>),
     JournalPath :> save_lines(WorkIssues, <<>>, WorkRing, <<>>)}

InitWork == \E disk \in WorkDisks : OpenedFrom(disk)

WorkStatuses ==
    {StatusOpen, StatusInProgress, StatusBlocked, StatusDeferred, StatusClosed,
     StatusTombstone, StatusPinned, StatusCustom("x")}

\* the typed edges callers ask for
WorkEdges ==
    {<<"bd-a1", "bd-b2", DepBlocks>>, <<"bd-a1", "bd-b2", DepRelated>>,
     <<"bd-b2", "bd-c3", DepParentChild>>, <<"bd-b2", "bd-c3", DepCustom("x")>>,
     <<"bd-a1", "bd-c3", DepConditionalBlocks>>, <<"bd-a1", "bd-c3", DepDiscoveredFrom>>,
     <<"bd-c3", "bd-a1", DepWaitsFor>>, <<"bd-c3", "bd-a1", DepRelated>>,
     <<"bd-c3", "bd-c3", DepBlocks>>, <<"bd-zz", "bd-zz", DepRelated>>,
     <<"bd-zz", "bd-c3", DepRelated>>, <<"bd-a1", "bd-zz", DepBlocks>>}

WorkRemovals == {<<"bd-a1", "bd-b2">>, <<"bd-b2", "bd-c3">>}

\* the status changes callers ask for: bd-a1 takes every kind of status,
\* bd-b2 is closed, deleted softly and reopened
WorkUpdates ==
    {<<"bd-a1", st>> : st \in WorkStatuses}
        \cup {<<"bd-b2", st>> : st \in {StatusClosed, StatusTombstone, StatusOpen}}

WorkUpdate == \E pair \in WorkUpdates, actor \in Actors, now \in Times :
    update_issue(pair[1], StatusUpdate(pair[2]), actor, now) /\ LogWithin(MaxWorkEvents)
        /\ UNCHANGED diskVars

WorkAddDependency == \E edge \in WorkEdges, actor \in Actors, now \in Times :
    add_dependency(edge[1], edge[2], edge[3], actor, None, now) /\ LogWithin(MaxWorkEvents)
        /\ UNCHANGED diskVars

WorkRemoveDependency == \E pair \in WorkRemovals, actor \in Actors, now \in Times :
    remove_dependency(pair[1], pair[2], actor, now) /\ LogWithin(MaxWorkEvents)
        /\ UNCHANGED diskVars

WorkDelete == \E id \in {"bd-c3"}, actor \in Actors, force \in BOOLEAN, now \in Times :
    delete_issue(id, actor, force, now) /\ LogWithin(MaxWorkEvents)
        /\ UNCHANGED diskVars

NextWork ==
    \/ WorkUpdate
    \/ WorkAddDependency
    \/ WorkRemoveDependency
    \/ WorkDelete

SpecWork == InitWork /\ [][NextWork]_vars

InboundEdges(deps, id) == {i \in 1..Len(deps) : deps[i].depends_on_id = id}

\* C22: delete_issue(id, force = false) of a stored issue fails with
\* HasDependents carrying the number of inbound edges, and changes nothing,
\* iff at least one edge of any type has id as its target; outgoing edges
\* alone never block deletion, and force = true deletes whatever the
\* inbound edges are.
C22_DeleteRefusedIffInbound ==
    [][ret'.op = "delete_issue" /\ ret'.id \in DOMAIN issues
        => LET inbound == Cardinality(InboundEdges(dependencies, ret'.id))
           IN  IF ~ret'.arg /\ inbound > 0
               THEN /\ ret'.err = "HasDependents"
                    /\ ret'.val = Some(inbound)
                    /\ UNCHANGED storeVars
               ELSE /\ ret'.err = "ok"
                    /\ ret'.id \notin DOMAIN issues']_vars

\* bd-c3, whose only inbound edge is of a non-blocking type and which has
\* an outgoing edge of a blocking type, was refused deletion
C22_Witness ==
    /\ ret.op = "delete_issue" /\ ret.id = "bd-c3" /\ ret.err = "HasDependents"
    /\ ret.val = Some(1)
    /\ \A i \in InboundEdges(dependencies, "bd-c3") : ~is_blocking(dependencies[i].dep_type)
    /\ \E i \in 1..Len(dependencies) :
            dependencies[i].issue_id = "bd-c3" /\ is_blocking(dependencies[i].dep_type)

ReadySortPolicies == {"Hybrid", "Priority", "Oldest"}

\* some edge of one of the four blocking types leaves id for a stored
\* issue that is neither closed nor a tombstone
HeldBack(id) ==
    \E i \in 1..Len(dependencies) :
        /\ dependencies[i].issue_id = id
        /\ dependencies[i].dep_type \in
                {DepBlocks, DepParentChild, DepConditionalBlocks, DepWaitsFor}
        /\ dependencies[i].depends_on_id \in DOMAIN issues
        /\ issues[dependencies[i].depends_on_id].status \notin {StatusClosed, StatusTombstone}

\* the ids that are ready by the rule of the claim
ReadyIds(include_deferred) ==
    {id \in DOMAIN issues :
        /\ ~issues[id].is_template
        /\ ~HeldBack(id)
        /\ \/ issues[id].status \in {StatusOpen, StatusInProgress}
           \/ include_deferred /\ issues[id].status = StatusDeferred}

IdsOf(vec) == {vec[i].id : i \in 1..Len(vec)}

\* C24: with no assignee, type, priority, label or parent filter (and no
\* limit), get_ready_issues returns, once each, exactly the stored issues
\* that are not templates, are not blocked and are open or in progress, or
\* deferred when include_deferred is set; no issue whose status is
\* blocked, pinned, custom, closed or tombstone is returned, whatever
\* include_deferred, the sort policy and the map's iteration order are.
C24_ReadyIsActiveUnblocked ==
    \A include_deferred \in BOOLEAN, sort_policy \in ReadySortPolicies,
       order \in KeyOrders(DOMAIN issues) :
        LET got == get_ready_issues(
                      [DefaultReadyFilters EXCEPT !.include_deferred = include_deferred],
                      sort_policy, order)
        IN  /\ IdsOf(got) = ReadyIds(include_deferred)
            /\ Len(got) = Cardinality(ReadyIds(include_deferred))
            /\ \A i \in 1..Len(got) :
                /\ got[i] = issues[got[i].id]
                /\ got[i].status.tag \notin
                        {"Blocked", "Pinned", "Custom", "Closed", "Tombstone"}

\* bd-a1 is deferred, bd-b2 is open and held back by the open template
\* bd-c3: the ready query returns bd-a1 when deferred issues are asked for
\* and nothing otherwise
C24_Witness ==
    /\ DOMAIN issues = GraphIds
    /\ issues["bd-a1"].status = StatusDeferred
    /\ issues["bd-b2"].status = StatusOpen /\ HeldBack("bd-b2")
    /\ issues["bd-c3"].is_template /\ issues["bd-c3"].status = StatusOpen
    /\ ~HeldBack("bd-c3")
    /\ get_ready_issues(DefaultReadyFilters, "Hybrid", <<"bd-a1", "bd-b2", "bd-c3">>) = <<>>
    /\ IdsOf(get_ready_issues([DefaultReadyFilters EXCEPT !.include_deferred = TRUE],
                              "Hybrid", <<"bd-a1", "bd-b2", "bd-c3">>)) = {"bd-a1"}

OutgoingEdges(deps, id) == {i \in 1..Len(deps) : deps[i].issue_id = id}

\* the ids that are blocked by the rule of the claim
BlockedIds ==
    {id \in DOMAIN issues :
        issues[id].status \notin {StatusClosed, StatusTombstone} /\ HeldBack(id)}

\* C25: get_blocked_issues returns, once each, exactly the non-terminal
\* issues with at least one outgoing edge of a blocking type (blocks,
\* parent-child, conditional-blocks, waits-for) to a non-terminal issue;
\* is_blocked(id) is true iff such an edge leaves id; an issue whose
\* outgoing edges are all of non-blocking types is not blocked.
C25_BlockedByOpenBlocker ==
    /\ \A id \in GraphIds : is_blocked(id) <=> HeldBack(id)
    /\ \A id \in GraphIds :
            (\A i \in OutgoingEdges(dependencies, id) :
                dependencies[i].dep_type \notin
                    {DepBlocks, DepParentChild, DepConditionalBlocks, DepWaitsFor})
                => ~is_blocked(id)
    /\ \A order \in KeyOrders(DOMAIN issues) :
            LET got == get_blocked_issues(order)
            IN  /\ IdsOf(got) = BlockedIds
                /\ Len(got) = Cardinality(BlockedIds)
                /\ \A i \in 1..Len(got) : got[i] = issues[got[i].id]

\* bd-a1 has a blocking edge to the open bd-b2 and bd-c3 a related edge to
\* the open bd-a1: bd-a1 alone is blocked
C25_Witness ==
    /\ ret.op = "add_dependency" /\ ret.err = "ok" /\ ret.id = "bd-c3"
    /\ \E i \in OutgoingEdges(dependencies, "bd-c3") :
            dependencies[i].depends_on_id = "bd-a1" /\ dependencies[i].dep_type = DepRelated
    /\ \E i \in OutgoingEdges(dependencies, "bd-a1") :
            dependencies[i].depends_on_id = "bd-b2" /\ dependencies[i].dep_type = DepBlocks
    /\ issues["bd-a1"].status = StatusOpen /\ issues["bd-b2"].status = StatusOpen
    /\ is_blocked("bd-a1") /\ ~is_blocked("bd-c3")
    /\ IdsOf(get_blocked_issues(<<"bd-a1", "bd-b2", "bd-c3">>)) = {"bd-a1"}

\* q is among, or absent from, what get_ready_issues returns with the
\* default filters, whatever the map's iteration order
InEveryReady(q) ==
    \A order \in KeyOrders(DOMAIN issues) :
        q \in IdsOf(get_ready_issues(DefaultReadyFilters, "Hybrid", order))

InNoReady(q) ==
    \A order \in KeyOrders(DOMAIN issues) :
        q \notin IdsOf(get_ready_issues(DefaultReadyFilters, "Hybrid", order))

\* q is a stored, open issue that is no template, p is another stored
\* issue, and the edges of a blocking type that leave q are one or more and
\* all lead to p
OnlyBlocker(q, p) ==
    /\ q # p
    /\ q \in DOMAIN issues /\ p \in DOMAIN issues
    /\ issues[q].status = StatusOpen /\ ~issues[q].is_template
    /\ \E i \in OutgoingEdges(dependencies, q) : is_blocking(dependencies[i].dep_type)
    /\ \A i \in OutgoingEdges(dependencies, q) :
            is_blocking(dependencies[i].dep_type) => dependencies[i].depends_on_id = p

\* C26: while an open issue q that is no template has blocking edges to p
\* only, q is absent from get_ready_issues as long as p is not terminal;
\* the update that closes p, and the removal of the edge, each leave a
\* store whose next get_ready_issues with default filters contains q.
C26_BlockedInvalidation ==
    [][\A q \in GraphIds, p \in GraphIds :
        /\ OnlyBlocker(q, p) /\ ~is_terminal(issues[p].status) => InNoReady(q)
        /\ (OnlyBlocker(q, p) /\ ~is_terminal(issues[p].status))' => InNoReady(q)'
        /\ OnlyBlocker(q, p)' /\ is_terminal(issues'[p].status) => InEveryReady(q)'
        /\ (/\ OnlyBlocker(q, p)
            /\ ret'.op = "update_issue" /\ ret'.err = "ok" /\ ret'.id = p
            /\ ret'.arg.status = Some(StatusClosed))
                => InEveryReady(q)'
        /\ (/\ OnlyBlocker(q, p)
            /\ ret'.op = "remove_dependency" /\ ret'.err = "ok" /\ ret'.id = q
            /\ ret'.arg.depends_on_id = p)
                => InEveryReady(q)']_vars

\* bd-a1 was blocked by the open bd-b2 alone; bd-b2 has just been closed,
\* the edge is still stored, and bd-a1 is ready
C26_Witness ==
    /\ ret.op = "update_issue" /\ ret.err = "ok" /\ ret.id = "bd-b2"
    /\ ret.arg.status = Some(StatusClosed)
    /\ events[1].old_value = Some("open")
    /\ OnlyBlocker("bd-a1", "bd-b2")
    /\ issues["bd-b2"].status = StatusClosed
    /\ InEveryReady("bd-a1")
    /\ InNoReady("bd-b2")

\* the ids a cycle test is asked about: the stored ones and one that no
\* issue and no edge has
CycleIds == GraphIds \cup {"bd-zz"}

\* C29: would_create_cycle(s, t) is true exactly when s is reachable from t
\* in zero or more steps along stored edges of any type, on every edge set
\* (diamonds and edge sets that already hold a cycle included); and
\* add_dependency of a non-blocking edge C -> A after blocking edges A -> B
\* and B -> C fails with DependencyCycle carrying the path "C -> A".
C29_CycleTestAnyType ==
    /\ [](\A s \in CycleIds, t \in CycleIds :
            would_create_cycle(s, t) <=> (s = t \/ Reaches(dependencies, t, s)))
    /\ [][\A a \in GraphIds, b \in GraphIds, c \in GraphIds :
            (/\ \E i \in 1..Len(dependencies), j \in 1..Len(dependencies) :
                    /\ i < j
                    /\ dependencies[i].issue_id = a /\ dependencies[i].depends_on_id = b
                    /\ dependencies[j].issue_id = b /\ dependencies[j].depends_on_id = c
                    /\ is_blocking(dependencies[i].dep_type)
                    /\ is_blocking(dependencies[j].dep_type)
             /\ a # c
             /\ ~dependency_exists(c, a)
             /\ ret'.op = "add_dependency"
             /\ ret'.id = c
             /\ ret'.arg.depends_on_id = a
             /\ ~is_blocking(ret'.arg.dep_type))
            => /\ ret'.err = "DependencyCycle"
               /\ ret'.val = Some(c \o " -> " \o a)
               /\ UNCHANGED storeVars]_vars

\* related edge bd-c3 -> bd-a1 refused after the blocking edges
\* bd-a1 -> bd-b2 and bd-b2 -> bd-c3 were added
C29_Witness ==
    /\ ret.op = "add_dependency"
    /\ ret.err = "DependencyCycle"
    /\ ret.id = "bd-c3"
    /\ ret.arg = [depends_on_id |-> "bd-a1", dep_type |-> DepRelated]
    /\ ret.val = Some("bd-c3 -> bd-a1")
    /\ Len(dependencies) = 2
    /\ dependencies[1].dep_type = DepBlocks
    /\ dependencies[2].dep_type = DepParentChild
    /\ would_create_cycle("bd-c3", "bd-a1")

\* the first check of add_dependency(s, t) that fails, in the order C32
\* gives, or "ok"
FirstRefusal(s, t) ==
    IF s = t THEN "SelfDependency"
    ELSE IF s \notin DOMAIN issues THEN "IssueNotFound"
    ELSE IF t \notin DOMAIN issues THEN "DependencyNotFound"
    ELSE IF \E i \in 1..Len(dependencies) :
                dependencies[i].issue_id = s /\ dependencies[i].depends_on_id = t
    THEN "DuplicateDependency"
    ELSE IF Reaches(dependencies, t, s) THEN "DependencyCycle"
    ELSE "ok"

\* the step appends exactly one event, of the given type, for the issue
OneEventAppended(event_type, issue_id) ==
    /\ Len(events') = Len(events) + 1
    /\ SubSeq(events', 1, Len(events)) = events
    /\ events'[Len(events')].event_type = event_type
    /\ events'[Len(events')].issue_id = issue_id

CopyPath == "copy.jsonl"

RoundIssues ==
    <<SeedIssue("bd-a1"),
      [SeedIssue("bd-b2") EXCEPT !.status = StatusClosed, !.closed_at = Some(2),
                                 !.description = Some("d"), !.pinned = TRUE],
      [SeedIssue("bd-c3") EXCEPT !.status = StatusCustom("review")]>>

\* three issues as save writes them: labels and a comment on bd-a1, two
\* edges from bd-a1 and one from bd-b2
RoundLines ==
    save_lines(RoundIssues,
               << <<"bd-a1", <<"x", "y">> >> >>,
               <<Dependency("bd-a1", "bd-b2", DepBlocks, 1, Some("amy"), None),
                 Dependency("bd-b2", "bd-c3", DepRelated, 1, Some("amy"), Some("m")),
                 Dependency("bd-a1", "bd-c3", DepCustom("x"), 1, None, None)>>,
               << <<"bd-a1", <<Comment(1, "bd-a1", "amy", "hi", 1),
                               Comment(2, "bd-a1", "amy", "ho", 2)>> >> >>)

\* a line as save writes it, the line of a writer that leaves
\* compaction_level out, and the line of a compacted issue
LineVariants(line) ==
    {line,
     JsonLine([k \in DOMAIN line.obj \ {"compaction_level"} |-> line.obj[k]]),
     JsonLine([line.obj EXCEPT !["compaction_level"] = 1])}

\* a line that embeds an edge of an issue the journal does not hold
ForeignEdgeLine(line) ==
    JsonLine(("dependencies" :>
                <<DependencyToJson(Dependency("bd-zz", "bd-a1", DepBlocks, 1, None, None))>>)
             @@ line.obj)

RoundDisks ==
    {JournalPath :> <<l1, l2, l3>> :
        l1 \in LineVariants(RoundLines[1]), l2 \in LineVariants(RoundLines[2]),
        l3 \in LineVariants(RoundLines[3])}
    \cup {JournalPath :> <<RoundLines[1], RoundLines[2], ForeignEdgeLine(RoundLines[3])>>}

InitRound == \E disk \in RoundDisks : OpenedFrom(disk)

\* store.save_to(CopyPath) begins on the store opened from JournalPath
RoundSaveBegin ==
    /\ jsonl_path = Some(JournalPath)
    /\ CopyPath \notin DOMAIN fs
    /\ \E issue_order \in KeyOrders(DOMAIN issues),
          label_order \in KeyOrders(DOMAIN labels),
          comment_order \in KeyOrders(DOMAIN comments) :
            save_begin(CopyPath, issue_order, label_order, comment_order)
    /\ UNCHANGED <<storeVars, ret, hist, gen>>

\* InMemoryStore::open(CopyPath) after the save
RoundOpen ==
    /\ save_st.pc = "done"
    /\ open(CopyPath)
    /\ save_st' = SaveIdle
    /\ UNCHANGED <<fs, gen>>

NextRound ==
    \/ RoundSaveBegin
    \/ SaveWrite
    \/ SaveFlush
    \/ SaveRename
    \/ RoundOpen

SpecRound == InitRound /\ [][NextRound]_vars

\* what the first load gave: the journal at JournalPath is still on disk
FirstLoad == opened(load(fs, JournalPath), JournalPath, "")

\* the second load has returned
Copied == ret.op = "open" /\ ret.err = "ok" /\ ret.arg = CopyPath

\* an absent compaction_level read as 0
LevelRead(issue) ==
    [issue EXCEPT !.compaction_level = IF @.some THEN @ ELSE Some(0)]

\* C27 as stated: after load, save to a new path and load of that path,
\* every field of every issue equals the value the first load gave, the
\* label arrays are equal, the edge vectors are equal as multisets and the
\* comments of each issue are equal in order.
C27_RoundTripEqual ==
    Copied
        => /\ issues = FirstLoad.issues
           /\ labels = FirstLoad.labels
           /\ EdgeBag(dependencies) = EdgeBag(FirstLoad.dependencies)
           /\ comments = FirstLoad.comments

\* C27 (amended): for a journal whose embedded edges all have a source that
\* the journal holds, the second load gives the issues of the first with
\* every field equal except that an absent compaction_level has become 0,
\* equal label arrays, edge vectors equal as multisets and equal comments
\* per issue in order.
C27_RoundTripUpToLevel ==
    (/\ Copied
     /\ \A i \in 1..Len(FirstLoad.dependencies) :
            FirstLoad.dependencies[i].issue_id \in DOMAIN FirstLoad.issues)
        => /\ DOMAIN issues = DOMAIN FirstLoad.issues
           /\ \A id \in DOMAIN issues :
                /\ LevelRead(issues[id]) = LevelRead(FirstLoad.issues[id])
                /\ issues[id].compaction_level = LevelRead(FirstLoad.issues[id]).compaction_level
           /\ labels = FirstLoad.labels
           /\ EdgeBag(dependencies) = EdgeBag(FirstLoad.dependencies)
           /\ comments = FirstLoad.comments

\* the copy of a journal with one line that leaves compaction_level out,
\* one that has it as 0 and one that has it as 1 has been opened
C27_Witness ==
    /\ Copied
    /\ {FirstLoad.issues[id].compaction_level : id \in GraphIds} = {None, Some(0), Some(1)}
    /\ {issues[id].compaction_level : id \in GraphIds} = {Some(0), Some(1)}
    /\ Len(dependencies) = 3
    /\ labels["bd-a1"] = <<"x", "y">>
    /\ Len(comments["bd-a1"]) = 2

\* ------------------------------------------------------------------------
\* Specification of the list and ready queries: a store of a parent, its
\* child and grandchild, an issue whose id extends the parent's without a
\* dot, and a template, with differing priorities, creation times and
\* assignees, whose issues are then patched
\* ------------------------------------------------------------------------
QueryIssues ==
    <<[SeedIssue("bd-a1") EXCEPT !.priority = 2, !.created_at = 1],
      [SeedIssue("bd-a1.1") EXCEPT !.priority = 0, !.created_at = 3],
      [SeedIssue("bd-a1.1.2") EXCEPT !.priority = 1, !.created_at = 2,
                                     !.assignee = Some("amy")],
      [SeedIssue("bd-a12") EXCEPT !.priority = 3, !.created_at = 1],
      [SeedIssue("bd-t9") EXCEPT !.priority = 0, !.created_at = 0, !.is_template = TRUE]>>

QueryIds == {QueryIssues[i].id : i \in 1..Len(QueryIssues)}

QueryDisk == JournalPath :> save_lines(QueryIssues, <<>>, <<>>, <<>>)

InitQuery == OpenedFrom(QueryDisk)

\* the patches callers apply
QueryPatches ==
    {StatusUpdate(StatusClosed), StatusUpdate(StatusDeferred), StatusUpdate(StatusInProgress),
     [EmptyUpdate EXCEPT !.priority = Some(1)], [EmptyUpdate EXCEPT !.priority = Some(4)],
     [EmptyUpdate EXCEPT !.assignee = Some(Some("bob"))]}

QueryUpdate == \E id \in QueryIds \ {"bd-t9"}, update \in QueryPatches, actor \in Actors, now \in Times :
    update_issue(id, update, actor, now) /\ LogWithin(MaxQueryEvents)
        /\ UNCHANGED diskVars

NextQuery == QueryUpdate

SpecQuery == InitQuery /\ [][NextQuery]_vars

\* the parents a ready query is scoped to
QueryParents == {"bd-a1", "bd-a1.1", "bd-a12", "bd-zz"}

\* id is p followed by one or more dot segments
Descendant(id, p) == starts_with(id, p \o ".") /\ Len(id) > Len(p) + 1

\* id is p followed by one dot segment
DirectChild(id, p) ==
    Descendant(id, p) /\ ~contains(SubSeq(id, Len(p) + 2, Len(id)), ".")

\* the ready filters with only the parent scope set
Scoped(p, recursive) ==
    [DefaultReadyFilters EXCEPT !.parent = Some(p), !.recursive = recursive]

\* C33: with parent = p and recursive = false the ready query admits an
\* issue only if its id is p followed by one dot segment; with recursive =
\* true it admits an issue (that it admits without a parent scope) exactly
\* when its id is p followed by one or more dot segments, so an id that has
\* p as a string prefix without a following dot is not admitted.
C33_ParentScope ==
    \A p \in QueryParents, id \in DOMAIN issues :
        /\ is_ready_issue(issues[id], Scoped(p, FALSE)) => DirectChild(id, p)
        /\ is_ready_issue(issues[id], Scoped(p, TRUE))
            <=> (is_ready_issue(issues[id], DefaultReadyFilters) /\ Descendant(id, p))

\* the limits a ready query is given
QueryLimits == {0, 1, 2, 7}

\* the sequence is in ascending created_at order
Oldest(vec) == \A i \in 1..Len(vec), j \in 1..Len(vec) :
    i < j => vec[i].created_at <= vec[j].created_at

\* C34: under Hybrid every returned issue with priority <= 1 precedes every
\* returned issue with priority >= 2 and each of the two groups is in
\* ascending created_at order; under Priority the result is in ascending
\* order of priority, then of created_at; under Oldest in ascending order
\* of created_at; a limit k keeps the first k issues of that order.
C34_ReadySorted ==
    \A order \in KeyOrders(DOMAIN issues) :
        LET hybrid == get_ready_issues(DefaultReadyFilters, "Hybrid", order)
            priority == get_ready_issues(DefaultReadyFilters, "Priority", order)
            oldest == get_ready_issues(DefaultReadyFilters, "Oldest", order)
        IN  /\ \A i \in 1..Len(hybrid), j \in 1..Len(hybrid) :
                    (hybrid[i].priority <= 1 /\ hybrid[j].priority >= 2) => i < j
            /\ Oldest(SelectSeq(hybrid, LAMBDA x : x.priority <= 1))
            /\ Oldest(SelectSeq(hybrid, LAMBDA x : x.priority >= 2))
            /\ \A i \in 1..Len(priority), j \in 1..Len(priority) :
                    i < j => \/ priority[i].priority < priority[j].priority
                             \/ /\ priority[i].priority = priority[j].priority
                                /\ priority[i].created_at <= priority[j].created_at
            /\ Oldest(oldest)
            /\ \A k \in QueryLimits, sort_policy \in ReadySortPolicies :
                    LET all == get_ready_issues(DefaultReadyFilters, sort_policy, order)
                        cut == get_ready_issues([DefaultReadyFilters EXCEPT !.limit = Some(k)],
                                                sort_policy, order)
                    IN  cut = SubSeq(all, 1, IF k < Len(all) THEN k ELSE Len(all))

\* the ids of a result, in its order
IdSeq(vec) == [i \in 1..Len(vec) |-> vec[i].id]

\* after a patch the three policies give three different orders of four
\* ready issues and a limit of 2 cuts each
C34_Witness ==
    /\ ret.op = "update_issue"
    /\ ret.err = "ok"
    /\ \E order \in KeyOrders(DOMAIN issues) :
        /\ IdSeq(get_ready_issues(DefaultReadyFilters, "Hybrid", order))
            = <<"bd-a1.1.2", "bd-a1.1", "bd-a12", "bd-a1">>
        /\ IdSeq(get_ready_issues(DefaultReadyFilters, "Priority", order))
            = <<"bd-a1.1", "bd-a1.1.2", "bd-a12", "bd-a1">>
        /\ IdSeq(get_ready_issues(DefaultReadyFilters, "Oldest", order))
            = <<"bd-a12", "bd-a1", "bd-a1.1.2", "bd-a1.1">>
        /\ IdSeq(get_ready_issues([DefaultReadyFilters EXCEPT !.limit = Some(2)],
                                  "Hybrid", order))
            = <<"bd-a1.1.2", "bd-a1.1">>

\* the status lists a list query is given
QueryStatusLists ==
    {{}, {StatusOpen}, {StatusDeferred}, {StatusClosed, StatusDeferred},
     {StatusOpen, StatusInProgress, StatusTombstone}}

\* list filters with the four fields of the status and template tests
StatusFilters(statuses, include_closed, include_deferred, include_templates) ==
    [DefaultListFilters EXCEPT !.statuses = statuses, !.include_closed = include_closed,
                               !.include_deferred = include_deferred,
                               !.include_templates = include_templates]

\* the filters count_issues is compared with list_issues under
QueryListFilters ==
    {DefaultListFilters,
     StatusFilters(None, TRUE, TRUE, TRUE),
     StatusFilters(Some({StatusClosed, StatusDeferred}), FALSE, FALSE, FALSE),
     [DefaultListFilters EXCEPT !.unassigned = TRUE, !.sort = Some("title"),
                                !.reverse = TRUE],
     [DefaultListFilters EXCEPT !.assignee = Some("amy"), !.include_closed = TRUE,
                                !.sort = Some("updated_at")],
     [DefaultListFilters EXCEPT !.priorities = Some({0, 1}), !.sort = Some("created_at"),
                                !.title_contains = Some("T"), !.updated_after = Some(1)],
     [DefaultListFilters EXCEPT !.types = Some({TypeTask}), !.sort = Some("priority"),
                                !.updated_before = Some(1)]}

\* C35: when statuses is given an issue passes the status test exactly
\* when its status is in the list, whatever include_closed and
\* include_deferred are; when it is absent, closed and tombstone issues are
\* hidden unless include_closed and deferred issues unless include_deferred;
\* templates are hidden unless include_templates in both cases; assignee =
\* X with unassigned = true returns no issue; count_issues returns the
\* number of issues list_issues returns without a limit.
C35_ListStatusFilter ==
    /\ \A include_closed \in BOOLEAN, include_deferred \in BOOLEAN,
          include_templates \in BOOLEAN, id \in DOMAIN issues :
        /\ \A statuses \in QueryStatusLists :
            matches_list_filters(issues[id],
                                 StatusFilters(Some(statuses), include_closed,
                                               include_deferred, include_templates))
                <=> /\ issues[id].status \in statuses
                    /\ include_templates \/ ~issues[id].is_template
        /\ matches_list_filters(issues[id],
                                StatusFilters(None, include_closed, include_deferred,
                                              include_templates))
                <=> /\ include_closed \/ issues[id].status \notin {StatusClosed, StatusTombstone}
                    /\ include_deferred \/ issues[id].status # StatusDeferred
                    /\ include_templates \/ ~issues[id].is_template
    /\ \A order \in KeyOrders(DOMAIN issues) :
        /\ \A x \in {"amy", "bob"} :
            list_issues([StatusFilters(None, TRUE, TRUE, TRUE)
                            EXCEPT !.assignee = Some(x), !.unassigned = TRUE], order) = <<>>
        /\ \A filters \in QueryListFilters :
            count_issues(filters) = Len(list_issues(filters, order))

\* an issue was closed: the default list hides it and the template, a list
\* of the closed status shows it without include_closed
C35_Witness ==
    /\ ret.op = "update_issue"
    /\ ret.err = "ok"
    /\ issues[ret.id].status = StatusClosed
    /\ matches_list_filters(issues[ret.id],
                            StatusFilters(Some({StatusClosed, StatusDeferred}), FALSE, FALSE,
                                          FALSE))
    /\ ~matches_list_filters(issues[ret.id], DefaultListFilters)
    /\ count_issues(DefaultListFilters) = 3
    /\ count_issues(StatusFilters(None, TRUE, TRUE, TRUE)) = 5
    /\ count_issues([DefaultListFilters EXCEPT !.assignee = Some("amy")]) <= 1

\* ------------------------------------------------------------------------
\* Specification of the content hash: content_hash applied to two issues
\* drawn at the start
\* ------------------------------------------------------------------------
HashedFields ==
    {"title", "description", "design", "acceptance_criteria", "notes", "status",
     "priority", "issue_type", "assignee", "owner", "created_by", "external_ref",
     "source_system", "pinned", "is_template"}

\* issues that differ in one or two hashed fields: an absent and an empty
\* description, a null byte and a space, text moved from one field to the
\* next, a custom status or type named like a built-in one
HashIssues ==
    LET base == MakeIssue("bd-a1", "a")
    IN  {base,
         [base EXCEPT !.description = Some("")],
         [base EXCEPT !.description = Some("b")],
         [base EXCEPT !.description = Some(NUL)],
         [base EXCEPT !.design = Some("b")],
         [base EXCEPT !.title = "a" \o NUL],
         [base EXCEPT !.title = "a" \o NUL \o "b"],
         [base EXCEPT !.title = "a b"],
         [base EXCEPT !.status = StatusCustom("open")],
         [base EXCEPT !.issue_type = TypeCustom("task")],
         [base EXCEPT !.priority = 1, !.pinned = TRUE],
         [base EXCEPT !.assignee = Some("b"), !.is_template = TRUE]}

InitHash ==
    /\ StoreNew
    /\ Quiet
    /\ \E a \in HashIssues, b \in HashIssues :
        gen = [phase |-> "input", fn |-> "", a |-> a, b |-> b, ha |-> <<>>, hb |-> <<>>]

\* content_hash(&a) and content_hash(&b)
HashBoth ==
    /\ gen.phase = "input"
    /\ gen' = [gen EXCEPT !.phase = "done", !.fn = "content_hash",
                          !.ha = content_hash(gen.a), !.hb = content_hash(gen.b)]
    /\ UNCHANGED <<storeVars, ret, fs, save_st, hist>>

NextHash == HashBoth

SpecHash == InitHash /\ [][NextHash]_vars

\* the text of a hashed field as C37 describes its writing: an absent
\* optional field as the empty text, a status, priority, type or flag by
\* its name, null bytes as spaces
WrittenText(issue, field) ==
    LET v == issue[field]
        text == CASE field = "title" -> v
                  [] field = "status" -> Status_as_str(v)
                  [] field = "priority" -> "P" \o ToString(v)
                  [] field = "issue_type" -> IssueType_as_str(v)
                  [] field \in {"pinned", "is_template"} -> IF v THEN "true" ELSE "false"
                  [] OTHER -> IF v.some THEN v.v ELSE ""
    IN  [i \in 1..Len(text) |-> IF CharAt(text, i) = NUL THEN " " ELSE CharAt(text, i)]

\* C37 as stated: the byte stream fed to SHA-256 is the same for two issues
\* only if the two issues agree on all fifteen hashed fields.
C37_HashInjective ==
    (gen.phase = "done" /\ gen.ha = gen.hb)
        => \A field \in HashedFields : gen.a[field] = gen.b[field]

\* C37 (amended): the byte stream is the same for two issues only if they
\* agree on all fifteen hashed fields as written, that is up to an absent
\* optional field against an empty one, a null byte against a space, and a
\* custom status or type against the built-in one of the same name.
C37_HashInjectiveAsWritten ==
    (gen.phase = "done" /\ gen.ha = gen.hb)
        => \A field \in HashedFields :
            WrittenText(gen.a, field) = WrittenText(gen.b, field)

\* two issues with the same byte stream, one without a description and one
\* with an empty one
C37_Witness ==
    /\ gen.phase = "done"
    /\ gen.ha = gen.hb
    /\ gen.a.description = None
    /\ gen.b.description = Some("")
    /\ \A field \in HashedFields \ {"description"} : gen.a[field] = gen.b[field]

\* ------------------------------------------------------------------------
\* Specification of the id check of the issue validator: the validator
\* applied to one id drawn at the start, hand-written or generated
\* ------------------------------------------------------------------------
\* ids the generators return, and children of them
GeneratedIds ==
    UNION {{generate_id("bd", title, None, creator, 1, issue_count, pred),
            IdGenerator_generate("bd", title, None, creator, 1, issue_count, pred)} :
                title \in GenTitles, creator \in GenCreators,
                issue_count \in GenIssueCounts,
                pred \in {PredSet({}), PredSet(ProbeCandidates("bd", "t", None, None, 1)),
                          PredSet(ProbeCandidates("bd", "u", None, Some("amy"), 1)), PredAll}}

WrittenIds ==
    {"", " ", "bd-abc123", "beads9-0a9", "BD-abc123", "bd-ABC", "bd-1", "bd-ab", "bd-abc",
     "bd-abc12345", "bd-abc123456", "bd-abc123456789", "bd-abc1234567890", "bd_abc", "bd",
     "-abc", "bd-", "abcdefghij-abc", "abcdefghijk-abc", "bd-abc.1", "bd-abc123.1.2",
     "bd-abc.", "bd-abc.x", "bd-abc..1", "bd-ab-c", "bd-abc 1", "b.d-abc",
     "abcdefghij-abcdefghijkl.1234567890.1234567890.12345",
     "abcdefghij-abcdefghijkl.1234567890.1234567890.123456"}

ValidateIds == WrittenIds \cup GeneratedIds \cup {id \o ".1" : id \in GeneratedIds}

InitValidate ==
    /\ StoreNew
    /\ Quiet
    /\ \E id \in ValidateIds : gen = [phase |-> "input", fn |-> "", id |-> id, errors |-> {}]

\* IssueValidator::validate on an issue of that id
ValidateId ==
    /\ gen.phase = "input"
    /\ gen' = [gen EXCEPT !.phase = "done", !.fn = "IssueValidator::validate",
                          !.errors = validate_id(gen.id)]
    /\ UNCHANGED <<storeVars, ret, fs, save_st, hist>>

NextValidate == ValidateId

SpecValidate == InitValidate /\ [][NextValidate]_vars

\* the number of leading decimal digits of a text
RECURSIVE LeadingDigits(_)
LeadingDigits(s) ==
    IF s # "" /\ contains("0123456789", CharAt(s, 1))
    THEN 1 + LeadingDigits(SubSeq(s, 2, Len(s)))
    ELSE 0

\* the text matches (\.[0-9]+)*
RECURSIVE DotNumbers(_)
DotNumbers(s) ==
    \/ s = ""
    \/ /\ CharAt(s, 1) = "."
       /\ LeadingDigits(SubSeq(s, 2, Len(s))) >= 1
       /\ DotNumbers(SubSeq(s, 2 + LeadingDigits(SubSeq(s, 2, Len(s))), Len(s)))

\* the id matches [a-z0-9]{1,10}-[a-z0-9]{3,12}(\.[0-9]+)*
MatchesIdRegex(id) ==
    /\ find(id, "-") > 0
    /\ LET id_prefix == SubSeq(id, 1, find(id, "-") - 1)
           rest == SubSeq(id, find(id, "-") + 1, Len(id))
           hash == IF find(rest, ".") > 0 THEN SubSeq(rest, 1, find(rest, ".") - 1) ELSE rest
           path == SubSeq(rest, Len(hash) + 1, Len(rest))
       IN  /\ Len(id_prefix) \in 1..10
           /\ \A i \in 1..Len(id_prefix) : contains(Base36Alphabet, CharAt(id_prefix, i))
           /\ Len(hash) \in 3..12
           /\ \A i \in 1..Len(hash) : contains(Base36Alphabet, CharAt(hash, i))
           /\ DotNumbers(path)

\* C38: the id check of the issue validator accepts an id exactly when it
\* is non-empty, at most 50 characters long and matches
\* [a-z0-9]{1,10}-[a-z0-9]{3,12}(\.[0-9]+)*, so it accepts ids with and
\* without a .n suffix and every id the generators return for a valid
\* prefix.
C38_ValidatorAcceptsIdRegex ==
    gen.phase = "done"
        => /\ gen.errors = {} <=> (gen.id # "" /\ Len(gen.id) <= 50 /\ MatchesIdRegex(gen.id))
           /\ gen.id \in {"bd-abc123", "bd-abc123.1.2"} => gen.errors = {}
           /\ gen.id \in {IdGenerator_generate("bd", title, None, creator, 1, issue_count, pred) :
                            title \in GenTitles, creator \in GenCreators,
                            issue_count \in GenIssueCounts,
                            pred \in {PredSet({}), PredAll}}
                => gen.errors = {}

\* ------------------------------------------------------------------------
\* Specification of the probing of the id generators: one call of
\* generate_id (util.rs) or IdGenerator::generate (id.rs), one step for
\* each call of the existence predicate
\* ------------------------------------------------------------------------
\* the existence predicates: nothing exists, the candidates of nonces 0..4
\* at length 3 exist, every probed candidate exists, everything exists
ProbePredicates ==
    {PredSet({}),
     PredSet({GenCandidate("bd", "t", None, None, 1, nonce, 3) : nonce \in 0..4}),
     PredSet(ProbeCandidates("bd", "t", None, None, 1)),
     PredAll}

InitProbe ==
    /\ StoreNew
    /\ Quiet
    /\ \E fn \in {"generate_id", "IdGenerator::generate"}, issue_count \in {0, 2000000},
          pred \in ProbePredicates :
        gen = [phase |-> "probe", fn |-> fn, prefix |-> "bd", title |-> "t",
               description |-> None, creator |-> None, created_at |-> 1,
               issue_count |-> issue_count, pred |-> pred,
               length |-> optimal_hash_length(issue_count), nonce |-> 0,
               calls |-> [l \in 3..FallbackHashLength |-> 0], result |-> ""]

\* the candidate of the current nonce at the given length
ProbeCandidate(length) ==
    GenCandidate(gen.prefix, gen.title, gen.description, gen.creator, gen.created_at,
                 gen.nonce, length)

\* one turn of `for nonce in 0..10`: the candidate is built and the
\* predicate asked
ProbeStep ==
    /\ gen.phase = "probe"
    /\ gen.nonce < NoncesPerLength
    /\ gen' = IF ~Exists(gen.pred, ProbeCandidate(gen.length))
              THEN [gen EXCEPT !.calls[gen.length] = @ + 1, !.phase = "done",
                               !.result = ProbeCandidate(gen.length)]
              ELSE [gen EXCEPT !.calls[gen.length] = @ + 1, !.nonce = @ + 1]
    /\ UNCHANGED <<storeVars, ret, fs, save_st, hist>>

\* the ten nonces of a length are taken: the next length, or past length 8
\* the fallback loop of generate_id, or the unchecked twelve-character
\* candidate of IdGenerator::generate
ProbeNextLength ==
    /\ gen.phase = "probe"
    /\ gen.nonce = NoncesPerLength
    /\ gen' = IF gen.length < MaxHashLength
              THEN [gen EXCEPT !.length = @ + 1, !.nonce = 0]
              ELSE IF gen.fn = "generate_id"
              THEN [gen EXCEPT !.phase = "fallback", !.nonce = 0]
              ELSE [gen EXCEPT !.phase = "done", !.nonce = 0,
                               !.result = GenCandidate(gen.prefix, gen.title,
                                              gen.description, gen.creator,
                                              gen.created_at, 0, FallbackHashLength)]
    /\ UNCHANGED <<storeVars, ret, fs, save_st, hist>>

\* a fallback loop that gives up one nonce later
FallbackStepOneMore ==
    /\ gen.phase = "fallback"
    /\ gen' = IF ~Exists(gen.pred, ProbeCandidate(FallbackHashLength))
              THEN [gen EXCEPT !.calls[FallbackHashLength] = @ + 1, !.phase = "done",
                               !.result = ProbeCandidate(FallbackHashLength)]
              ELSE IF gen.nonce + 1 > FallbackMaxNonce + 1
              THEN [gen EXCEPT !.calls[FallbackHashLength] = @ + 1, !.phase = "done",
                               !.nonce = @ + 1,
                               !.result = ProbeCandidate(FallbackHashLength)
                                            \o ToString(gen.nonce + 1)]
              ELSE [gen EXCEPT !.calls[FallbackHashLength] = @ + 1, !.nonce = @ + 1]
    /\ UNCHANGED <<storeVars, ret, fs, save_st, hist>>

\* one turn of the fallback loop of generate_id: the predicate is asked
\* about the twelve-character candidate; after nonce 1000 the loop returns
\* the last candidate with the nonce appended
FallbackStep ==
    /\ gen.phase = "fallback"
    /\ gen' = IF ~Exists(gen.pred, ProbeCandidate(FallbackHashLength))
              THEN [gen EXCEPT !.calls[FallbackHashLength] = @ + 1, !.phase = "done",
                               !.result = ProbeCandidate(FallbackHashLength)]
              ELSE IF gen.nonce + 1 > FallbackMaxNonce
              THEN [gen EXCEPT !.calls[FallbackHashLength] = @ + 1, !.phase = "done",
                               !.nonce = @ + 1,
                               !.result = ProbeCandidate(FallbackHashLength)
                                            \o ToString(gen.nonce + 1)]
              ELSE [gen EXCEPT !.calls[FallbackHashLength] = @ + 1, !.nonce = @ + 1]
    /\ UNCHANGED <<storeVars, ret, fs, save_st, hist>>

NextProbe ==
    \/ ProbeStep
    \/ ProbeNextLength
    \/ FallbackStep

\* a call that has started keeps running: each step is a turn of a loop of
\* one thread
SpecProbe == InitProbe /\ [][NextProbe]_vars /\ WF_vars(NextProbe)

\* C39: generate_id returns for every existence predicate, one that is true
\* of every candidate included, after at most 10 calls of the predicate at
\* each hash length from the initial length up to 8 and at most 1001 calls
\* at length 12, and no call at any other length.
C39_ReturnsWithinCalls ==
    /\ <>(gen.phase = "done")
    /\ [](\A l \in 3..FallbackHashLength :
            gen.calls[l] <= (IF l \in GenInitialLength..MaxHashLength THEN 10
                             ELSE IF l = FallbackHashLength THEN 1001
                             ELSE 0))

\* generate_id has returned under the predicate that is true of every
\* candidate, after 10 calls at each length from 3 to 8 and 1001 at 12
C39_Witness ==
    /\ gen.phase = "done"
    /\ gen.fn = "generate_id"
    /\ gen.pred = PredAll
    /\ gen.calls = [l \in 3..FallbackHashLength |->
                        IF l <= MaxHashLength THEN 10
                        ELSE IF l = FallbackHashLength THEN 1001 ELSE 0]
    /\ gen.result = generate_id(gen.prefix, gen.title, gen.description, gen.creator,
                                gen.created_at, gen.issue_count, gen.pred)

\* ------------------------------------------------------------------------
\* Specification of dirty tracking: the store operations on the seeded
\* journal, with the records of the store remembered at each clear_dirty
\* ------------------------------------------------------------------------
\* the JSONL record save writes for each stored issue: its fields with its
\* labels, outgoing edges and comments
SavedRecords ==
    [id \in DOMAIN issues |-> save_line(issues[id], labels, dependencies, comments)]

\* clear_dirty, the records of that moment noted in the history
DirtyClear ==
    /\ clear_dirty
    /\ hist' = <<[kind |-> "clear_dirty", data |-> SavedRecords]>>
    /\ UNCHANGED <<fs, save_st, gen>>

NextDirty ==
    \/ CreateIssue
    \/ UpdateIssue
    \/ DeleteIssue
    \/ AddDependency
    \/ RemoveDependency
    \/ AddLabel
    \/ RemoveLabel
    \/ SetLabels
    \/ AddComment
    \/ DirtyClear

SpecDirty == Init /\ [][NextDirty]_vars

\* the record of the issue is not what it was at the last clear_dirty: it
\* was created, deleted or changed since
RecordChanged(id) ==
    LET before == hist[1].data
    IN  \/ (id \in DOMAIN before) # (id \in DOMAIN issues)
        \/ /\ id \in DOMAIN before
           /\ id \in DOMAIN issues
           /\ before[id] # SavedRecords[id]

\* C40: once clear_dirty has been called, every issue whose JSONL record
\* (fields, labels, outgoing edges, comments) differs from its record at the
\* last clear_dirty is in the dirty set, an issue that lost an outgoing edge
\* to a forced delete of the edge's target included.
C40_DirtyCoversChangedRecords ==
    hist # <<>> =>
        \A id \in DOMAIN issues \cup DOMAIN hist[1].data :
            RecordChanged(id) => id \in dirty_ids

====
